---- MODULE Spec2Model ----
(***************************************************************************)
(* Post generation workflow of socialmedia_generator.                      *)
(*                                                                         *)
(* The state is the relational store (posts, text_variations,              *)
(* media_contents), the in-process connection registry of the websocket    *)
(* route, and, per progress connection, the position of its coroutine      *)
(* (websocket_updates with the generate_post it awaits) and its locals.    *)
(* One action is one segment of the coroutine between two awaits: asyncio  *)
(* runs such a segment without interleaving any other task.                *)
(***************************************************************************)
EXTENDS Integers, Sequences, FiniteSets, TLC

\* ------------------------------------------------------------------ bounds
\* Number of progress connections opened over a behaviour.
MaxConns == 2
\* Longest "variations" array of a gateway response.
MaxVars == 2
\* Longest "image_prompts" array of a gateway response.
MaxPrompts == 2
\* Selections created in a behaviour.
MaxSelects == 2
\* Writes of completed_at on a post by direct calls of update_post_status.
MaxStamps == 3

Conns == 1..MaxConns

\* Post ids a client may name. "p1" and "p2" can be created, "px" never is.
PostIds == {"p1", "p2", "px"}

None == "None"

\* ------------------------------------------------------------ enumerations
\* PostStatus
PENDING == "pending"
PROCESSING_CONTEXT == "processing_context"
GENERATING_TEXT == "generating_text"
GENERATING_MEDIA == "generating_media"
COMPLETED == "completed"
FAILED == "failed"
PostStatus == {PENDING, PROCESSING_CONTEXT, GENERATING_TEXT, GENERATING_MEDIA,
               COMPLETED, FAILED}

\* MediaType
MediaType == {"image", "video", "both", "none"}

\* Messages of the errors a run can raise (str(e) in generate_post).
ErrTextGateway == "text gateway error"
ErrNoJson == "An error occurred: No JSON object found in the input string."
ErrDecode == "Failed to decode JSON"
ErrKeyNumber == "'variation_number'"
ErrKeyText == "'text_content'"
ErrImageGateway == "image gateway error"
ErrUpload == "upload error"
ErrSink == "progress callback failed"
ErrStore == "store error"

\* ------------------------------------------------------------------ store
\* A row of table posts; exists = FALSE stands for "no such row".
NoPost ==
  [exists |-> FALSE, media_content_needed |-> "none", sources |-> <<>>,
   status |-> PENDING, current_step |-> None, error_message |-> None,
   started_at |-> FALSE, completed_at |-> 0]

NewPost(media, sources) ==
  [exists |-> TRUE, media_content_needed |-> media, sources |-> sources,
   status |-> PENDING, current_step |-> None, error_message |-> None,
   started_at |-> FALSE, completed_at |-> 0]

EmptyDb ==
  [posts |-> [p \in PostIds |-> NoPost],
   text_variations |-> <<>>,
   media_contents |-> <<>>,
   post_selections |-> <<>>,
   selected_media |-> <<>>,
   unwanted_media |-> <<>>]

\* The rows of a table (a sequence, in insertion order) of post post_id
\* (filter(post_id == post_id)).
RECURSIVE RowsOf(_, _)
RowsOf(rows, post_id) ==
  IF rows = <<>> THEN <<>>
  ELSE IF Head(rows).post_id = post_id
       THEN <<Head(rows)>> \o RowsOf(Tail(rows), post_id)
       ELSE RowsOf(Tail(rows), post_id)

\* The rows left when those of post post_id are deleted.
RECURSIVE RowsNotOf(_, _)
RowsNotOf(rows, post_id) ==
  IF rows = <<>> THEN <<>>
  ELSE IF Head(rows).post_id # post_id
       THEN <<Head(rows)>> \o RowsNotOf(Tail(rows), post_id)
       ELSE RowsNotOf(Tail(rows), post_id)

\* Stable insertion sort by variation_number (ORDER BY variation_number).
RECURSIVE InsertByNumber(_, _)
InsertByNumber(sorted, r) ==
  IF sorted = <<>> THEN <<r>>
  ELSE IF Head(sorted).variation_number <= r.variation_number
       THEN <<Head(sorted)>> \o InsertByNumber(Tail(sorted), r)
       ELSE <<r>> \o sorted

RECURSIVE OrderByNumber(_)
OrderByNumber(rows) ==
  IF rows = <<>> THEN <<>>
  ELSE InsertByNumber(OrderByNumber(SubSeq(rows, 1, Len(rows) - 1)), rows[Len(rows)])

\* A clear_progress_messages that also puts the status back to pending.
clear_progress_messages_resets_status(db, post_id, fail) ==
  IF fail \/ ~db.posts[post_id].exists THEN db
  ELSE [db EXCEPT !.posts[post_id].current_step = None,
                  !.posts[post_id].status = PENDING]

\* PostService.clear_progress_messages. fail: the store raised SQLAlchemyError.
clear_progress_messages(db, post_id, fail) ==
  IF fail \/ ~db.posts[post_id].exists THEN db
  ELSE [db EXCEPT !.posts[post_id].current_step = None]

\* A delete_text_variations that deletes nothing.
delete_text_variations_keeps_rows(db, post_id, fail) == db

\* PostService.delete_text_variations
delete_text_variations(db, post_id, fail) ==
  IF fail THEN db
  ELSE [db EXCEPT !.text_variations =
          RowsNotOf(db.text_variations, post_id)]

\* PostService.delete_media_contents
delete_media_contents(db, post_id, fail) ==
  IF fail THEN db
  ELSE [db EXCEPT !.media_contents =
          RowsNotOf(db.media_contents, post_id)]

\* PostService.update_post_status: the store after the call. A current_step or
\* error_message of None leaves the field as it is. completed_at counts time:
\* 0 is null, and datetime.utcnow() of a later call is a later time than the
\* one stored.
update_post_status(db, post_id, status, current_step, error_message, fail) ==
  IF fail \/ ~db.posts[post_id].exists THEN db
  ELSE LET post == db.posts[post_id]
           p1 == [post EXCEPT !.status = status]
           p2 == IF current_step # None THEN [p1 EXCEPT !.current_step = current_step]
                 ELSE p1
           p3 == IF error_message # None THEN [p2 EXCEPT !.error_message = error_message]
                 ELSE p2
           p4 == IF status = PROCESSING_CONTEXT /\ ~post.started_at
                 THEN [p3 EXCEPT !.started_at = TRUE]
                 ELSE IF status \in {COMPLETED, FAILED}
                      THEN [p3 EXCEPT !.completed_at = @ + 1]
                      ELSE p3
       IN [db EXCEPT !.posts[post_id] = p4]

\* The store errors of an insert (add_text_variation, add_media_content):
\* "insert": the flush or the commit raises and the rollback leaves no row;
\* "refresh": the commit went through and the read of the id of the row, which
\* the commit expired, raises: the rollback has nothing to undo and the row
\* stays. Either way the call returns None.
InsertFailures == {None, "insert", "refresh"}

\* PostService.add_text_variation. ok: an id is returned.
add_text_variation(db, id, post_id, variation_number, text_content, fail) ==
  IF fail = "insert" THEN [db |-> db, ok |-> FALSE]
  ELSE [db |-> [db EXCEPT !.text_variations =
                  Append(@, [id |-> id, post_id |-> post_id,
                             variation_number |-> variation_number,
                             text_content |-> text_content, is_selected |-> FALSE])],
        ok |-> fail = None]

\* PostService.add_media_content. ok: an id is returned.
add_media_content(db, id, post_id, variation_number, file_path, generation_prompt, fail) ==
  IF fail = "insert" THEN [db |-> db, ok |-> FALSE]
  ELSE [db |-> [db EXCEPT !.media_contents =
                  Append(@, [id |-> id, post_id |-> post_id, media_type |-> "image",
                             variation_number |-> variation_number,
                             file_path |-> file_path,
                             generation_prompt |-> generation_prompt,
                             is_selected |-> FALSE])],
        ok |-> fail = None]

\* PostService.get_post: the post as a dict, or None (also when the store raises).
get_post(db, post_id, fail) ==
  IF fail \/ ~db.posts[post_id].exists THEN [found |-> FALSE, post |-> NoPost]
  ELSE [found |-> TRUE, post |-> db.posts[post_id]]

\* The ids of a sequence of rows.
Ids(rows) == [k \in DOMAIN rows |-> rows[k].id]

\* The elements of a sequence.
Range(seq) == {seq[k] : k \in DOMAIN seq}

\* The rows of a sequence that satisfy keep (a set of the rows to keep).
RECURSIVE KeepRows(_, _)
KeepRows(rows, keep) ==
  IF rows = <<>> THEN <<>>
  ELSE IF Head(rows) \in keep THEN <<Head(rows)>> \o KeepRows(Tail(rows), keep)
       ELSE KeepRows(Tail(rows), keep)

\* A deletion of the existing selection that leaves its selected media.
DeleteExistingSelection_keeps_media(db, post_id) ==
  LET old == {r \in Range(db.post_selections) : r.post_id = post_id}
  IN [db EXCEPT !.post_selections = KeepRows(@, Range(@) \ old)]

\* create_selection lines 247-254: the selection of the post, if any, is
\* deleted (with its selected media, by the relationship's cascade) and the
\* deletion is committed.
DeleteExistingSelection(db, post_id) ==
  LET old == {r \in Range(db.post_selections) : r.post_id = post_id}
      oldIds == {r.id : r \in old}
  IN [db EXCEPT
        !.post_selections = KeepRows(@, Range(@) \ old),
        !.selected_media = KeepRows(@, {m \in Range(@) : m.selection_id \notin oldIds})]

\* create_selection lines 290-305: one UnwantedMedia row per media row of the
\* post that is not selected and has a file path.
RECURSIVE UnwantedOf(_, _, _)
UnwantedOf(media, selected_ids, post_id) ==
  IF media = <<>> THEN <<>>
  ELSE LET m == Head(media)
           rest == UnwantedOf(Tail(media), selected_ids, post_id)
       IN IF m.id \notin selected_ids /\ m.file_path # ""
          THEN <<[media_content_id |-> m.id, file_path |-> m.file_path,
                  post_id |-> post_id]>> \o rest
          ELSE rest

\* A create_selection that counts every unchosen media row of the post, with
\* or without a file path.
create_selection_counts_all(db, id, post_id, text_variation_id, image_ids, video_ids, fail) ==
  LET d1 == DeleteExistingSelection(db, post_id)
      all_selected_ids == image_ids \o video_ids
      media == RowsOf(d1.media_contents, post_id)
      unwanted == UnwantedOf(media, Range(all_selected_ids), post_id)
      d2 == [d1 EXCEPT
               !.post_selections =
                  Append(@, [id |-> id, post_id |-> post_id,
                             text_variation_id |-> text_variation_id]),
               !.selected_media =
                  @ \o [k \in DOMAIN all_selected_ids |->
                          [selection_id |-> id, media_content_id |-> all_selected_ids[k]]],
               !.text_variations =
                  [k \in DOMAIN @ |->
                     IF @[k].id = text_variation_id THEN [@[k] EXCEPT !.is_selected = TRUE]
                     ELSE @[k]],
               !.media_contents =
                  [k \in DOMAIN @ |->
                     IF @[k].id \in Range(all_selected_ids)
                     THEN [@[k] EXCEPT !.is_selected = TRUE]
                     ELSE @[k]],
               !.unwanted_media = @ \o unwanted]
  IN IF fail = "delete"
     THEN [db |-> db, ok |-> FALSE, selection_id |-> None, unwanted_media_count |-> 0]
     ELSE IF fail = "commit"
     THEN [db |-> d1, ok |-> FALSE, selection_id |-> None, unwanted_media_count |-> 0]
     ELSE IF fail = "refresh"
     THEN [db |-> d2, ok |-> FALSE, selection_id |-> None, unwanted_media_count |-> 0]
     ELSE [db |-> d2, ok |-> TRUE, selection_id |-> id,
           unwanted_media_count |->
             Cardinality({k \in DOMAIN media : media[k].id \notin Range(all_selected_ids)})]

\* Where the store raises SQLAlchemyError inside create_selection, if it does:
\* "delete", at the query for the existing selection, at its deletion or at
\* the commit of the deletion (lines 248-255); "commit", after that commit (at
\* the flush, at an update, at a query or at the last commit, lines 258-307);
\* "refresh", after the last commit, at the read of the id of the selection
\* that the commit expired (line 310).
SelectionFailures == {None, "delete", "commit", "refresh"}

\* PostService.create_selection: the store after the call and what it returns.
\* id: the uuid of the new selection. fail: one of SelectionFailures. The
\* except clause (lines 314-317) rolls back what is not committed: everything
\* for "delete", everything but the deletion of the existing selection for
\* "commit", nothing for "refresh".
create_selection(db, id, post_id, text_variation_id, image_ids, video_ids, fail) ==
  LET d1 == DeleteExistingSelection(db, post_id)
      all_selected_ids == image_ids \o video_ids
      unwanted == IF d1.posts[post_id].exists
                  THEN UnwantedOf(RowsOf(d1.media_contents, post_id),
                                  Range(all_selected_ids), post_id)
                  ELSE <<>>
      d2 == [d1 EXCEPT
               !.post_selections =
                  Append(@, [id |-> id, post_id |-> post_id,
                             text_variation_id |-> text_variation_id]),
               !.selected_media =
                  @ \o [k \in DOMAIN all_selected_ids |->
                          [selection_id |-> id, media_content_id |-> all_selected_ids[k]]],
               !.text_variations =
                  [k \in DOMAIN @ |->
                     IF @[k].id = text_variation_id THEN [@[k] EXCEPT !.is_selected = TRUE]
                     ELSE @[k]],
               !.media_contents =
                  [k \in DOMAIN @ |->
                     IF @[k].id \in Range(all_selected_ids)
                     THEN [@[k] EXCEPT !.is_selected = TRUE]
                     ELSE @[k]],
               !.unwanted_media = @ \o unwanted]
  IN IF fail = "delete"
     THEN [db |-> db, ok |-> FALSE, selection_id |-> None, unwanted_media_count |-> 0]
     ELSE IF fail = "commit"
     THEN [db |-> d1, ok |-> FALSE, selection_id |-> None, unwanted_media_count |-> 0]
     ELSE IF fail = "refresh"
     THEN [db |-> d2, ok |-> FALSE, selection_id |-> None, unwanted_media_count |-> 0]
     ELSE [db |-> d2, ok |-> TRUE, selection_id |-> id,
           unwanted_media_count |-> Len(unwanted)]

\* PostService.get_text_variations
get_text_variations(db, post_id, fail) ==
  IF fail THEN <<>>
  ELSE OrderByNumber(RowsOf(db.text_variations, post_id))

\* PostService.get_media_contents
get_media_contents(db, post_id, fail) ==
  IF fail THEN <<>>
  ELSE OrderByNumber(RowsOf(db.media_contents, post_id))

\* A get_data_sources that returns the newest source first.
get_data_sources_newest_first(db, post_id, fail) ==
  IF fail THEN <<>>
  ELSE LET src == db.posts[post_id].sources
       IN [k \in DOMAIN src |-> src[Len(src) + 1 - k]]

\* PostService.get_data_sources
get_data_sources(db, post_id, fail) ==
  IF fail THEN <<>> ELSE db.posts[post_id].sources

\* ------------------------------------------------- text gateway responses
\* A parsed response: the JSON object the prompt asks for. has_variations /
\* has_image_prompts tell whether the key is present. Texts and prompts are
\* opaque strings: entry i carries text i, prompt k is k.
EmptyBody ==
  [has_variations |-> FALSE, variations |-> <<>>,
   has_image_prompts |-> FALSE, image_prompts |-> <<>>]

\* Shape of entry i of "variations": a number n >= 1 is a well-formed entry
\* {"variation_number": n, "text_content": ...}, n being the position of the
\* entry or another number; 0 lacks "variation_number"; -1 lacks
\* "text_content".
EntryShapes(i) == {i, (i % MaxVars) + 1, 0, -1}

MkEntry(i, shape) ==
  [has_number |-> shape # 0,
   variation_number |-> IF shape >= 1 THEN shape ELSE IF shape = -1 THEN i ELSE 0,
   has_text |-> shape # -1,
   text_content |-> IF shape # -1 THEN i ELSE 0]

VariationLists ==
  UNION {{[i \in 1..n |-> MkEntry(i, sh[i])] :
            sh \in {t \in [1..n -> -1..MaxVars] : \A i \in 1..n : t[i] \in EntryShapes(i)}} :
         n \in 0..MaxVars}

PromptLists == {[k \in 1..m |-> k] : m \in 0..MaxPrompts}

Bodies ==
  {[has_variations |-> TRUE, variations |-> v,
    has_image_prompts |-> TRUE, image_prompts |-> q] : v \in VariationLists, q \in PromptLists}
  \cup {[has_variations |-> FALSE, variations |-> <<>>,
         has_image_prompts |-> TRUE, image_prompts |-> q] : q \in PromptLists}
  \cup {[has_variations |-> TRUE, variations |-> v,
         has_image_prompts |-> FALSE, image_prompts |-> <<>>] : v \in VariationLists}
  \cup {EmptyBody}

\* The raw text of a response, as a sequence of tokens: "{" and "}", "w" (any
\* other text outside the object), "nl" / "cr" / "tab", "#", and "members", the
\* text between the braces of the object whose content is body.
Tok(t) == [t |-> t, body |-> EmptyBody]
Members(body) == [t |-> "members", body |-> body]

\* The text of a token holds a brace: the token is one, or it is the members
\* of an object with entries in "variations", each entry an object of its own.
HasEntries(tok) == tok.t = "members" /\ tok.body.variations # <<>>
HoldsOpen(tok) == tok.t = "{" \/ HasEntries(tok)
HoldsClose(tok) == tok.t = "}" \/ HasEntries(tok)

\* Raw texts holding the object body: bare, wrapped in prose, and with line
\* breaks and a hash sign around it.
GoodRaws(body) ==
  { <<Tok("{"), Members(body), Tok("}")>>,
    <<Tok("w"), Tok("{"), Members(body), Tok("}"), Tok("w")>>,
    <<Tok("#"), Tok("nl"), Tok("{"), Tok("nl"), Members(body), Tok("tab"), Tok("}"), Tok("cr")>> }

\* Raw texts that hold no JSON object json.loads can read: no braces, a closing
\* brace before the opening one, an object that is not closed, text that is
\* not JSON between the braces.
BadRaws(body) ==
  { <<>>,
    <<Tok("w")>>,
    <<Tok("}"), Tok("w"), Tok("{")>>,
    <<Tok("{"), Members(body)>>,
    <<Tok("{"), Tok("w"), Tok("}")>>,
    <<Tok("{"), Tok("#"), Members(body), Tok("}")>> }

\* Raw texts that hold the object body followed by text with a brace in it.
TrailingRaws(body) ==
  { <<Tok("{"), Members(body), Tok("}"), Tok("w"), Tok("}")>>,
    <<Tok("{"), Members(body), Tok("}"), Tok("{"), Members(body), Tok("}")>> }

\* generate_post line 130: .replace('\n',' ').replace('\r',' ').replace('\t',' ')
\* .replace('#','(Hashtag)')
Sanitize(raw) ==
  [i \in DOMAIN raw |->
     IF raw[i].t \in {"nl", "cr", "tab"} THEN Tok("sp")
     ELSE IF raw[i].t = "#" THEN Tok("(Hashtag)")
     ELSE raw[i]]

SetMin(S) == CHOOSE x \in S : \A y \in S : x <= y
SetMax(S) == CHOOSE x \in S : \A y \in S : x >= y

\* A sequence without its "sp" tokens.
RECURSIVE DropSpaces(_)
DropSpaces(s) ==
  IF s = <<>> THEN <<>>
  ELSE IF Head(s).t = "sp" THEN DropSpaces(Tail(s))
       ELSE <<Head(s)>> \o DropSpaces(Tail(s))

\* A parse_json_from_string that answers an empty object where the text has
\* no object it can read.
parse_json_from_string_lenient(s) ==
  LET opens == {i \in DOMAIN s : s[i].t = "{"}
      first == SetMin(opens)
      closes == {j \in DOMAIN s : j > first /\ s[j].t = "}"}
      last == SetMax(closes)
      inner == DropSpaces(SubSeq(s, first + 1, last - 1))
  IN IF opens # {} /\ closes # {} /\ Len(inner) = 1 /\ inner[1].t = "members"
     THEN [ok |-> TRUE, error |-> None, value |-> inner[1].body]
     ELSE [ok |-> TRUE, error |-> None, value |-> EmptyBody]

\* parse_json_from_string: re.search(r'\{.*\}', s, re.DOTALL) matches from the
\* first "{" of the text to its last "}"; the braces of the entries of
\* "variations" count. json.loads accepts the match when, white space apart, it
\* is an object: braces around nothing or around one member text, or the one
\* entry of a member text that stands outside any braces (the object read is
\* then the entry, which has neither "variations" nor "image_prompts"). A match
\* that begins or ends at the brace of an entry otherwise is not an object.
parse_json_from_string(s) ==
  LET opens == {i \in DOMAIN s : HoldsOpen(s[i])}
      first == SetMin(opens)
      closes == {j \in DOMAIN s : /\ HoldsClose(s[j])
                                  /\ j > first \/ (j = first /\ HasEntries(s[j]))}
      last == SetMax(closes)
      inner == DropSpaces(SubSeq(s, first + 1, last - 1))
  IN IF opens = {} \/ closes = {}
     THEN [ok |-> FALSE, error |-> ErrNoJson, value |-> EmptyBody]
     ELSE IF s[first].t = "{" /\ s[last].t = "}"
     THEN IF inner = <<>>
          THEN [ok |-> TRUE, error |-> None, value |-> EmptyBody]
          ELSE IF Len(inner) = 1 /\ inner[1].t = "members"
               THEN [ok |-> TRUE, error |-> None, value |-> inner[1].body]
               ELSE [ok |-> FALSE, error |-> ErrDecode, value |-> EmptyBody]
     ELSE IF first = last /\ Len(s[first].body.variations) = 1
          THEN [ok |-> TRUE, error |-> None, value |-> EmptyBody]
          ELSE [ok |-> FALSE, error |-> ErrDecode, value |-> EmptyBody]

\* ------------------------------------------------------------------ state
VARIABLES
  db,                  \* the store: posts, text_variations, media_contents
  active_connections,  \* ConnectionManager.active_connections: post id -> connection (0: none)
  pc,                  \* per connection: the await its coroutine is suspended at
  loc,                 \* per connection: the locals of websocket_updates / generate_post
  delivered,           \* per connection: the messages its websocket has received
  ws_open,             \* per connection: the client has not closed the websocket
  selects,             \* the number of selections created so far
  reply                \* the last reply of POST /api/posts/{id}/select

vars == <<db, active_connections, pc, loc, delivered, ws_open, selects, reply>>

\* ---------------------------------------------------------- store faults
\* A store call that raises SQLAlchemyError inside a segment is named by its
\* fault point; a segment runs under the set f of the points that fail in it.
\* The reload_* points are the reads of an attribute of the post row in
\* generate_post (lines 151, 161, 178, 183 and 190): the read of a row that a
\* commit or a rollback has expired queries the store again. The refresh_*
\* points are the reads of the id of a row just committed (post_service lines
\* 192, 225 and 310).
FaultNames ==
  {"clear", "del_text", "del_media", "query_post", "get_sources", "add_media",
   "refresh_media", "update_status", "get_post", "get_text", "get_media",
   "delete_selection", "commit_selection", "refresh_selection",
   "reload_media_needed", "reload_file_name", "reload_completed",
   "reload_content", "reload_except"}
FaultPoints ==
  {<<n, 0>> : n \in FaultNames}
    \cup {<<n, i>> : n \in {"add_text", "refresh_text"}, i \in 1..MaxVars}
NoFaults == {{}}
SingleFaults == {{}} \cup {{x} : x \in FaultPoints}
Fails(f, name) == <<name, 0>> \in f

\* The failure of create_selection under the faults f.
SelectionFailure(f) ==
  IF Fails(f, "delete_selection") THEN "delete"
  ELSE IF Fails(f, "commit_selection") THEN "commit"
  ELSE IF Fails(f, "refresh_selection") THEN "refresh"
  ELSE None

\* The failure of the add_text_variation of entry i under the faults f.
TextFailure(f, i) ==
  IF <<"add_text", i>> \in f THEN "insert"
  ELSE IF <<"refresh_text", i>> \in f THEN "refresh"
  ELSE None

\* The failure of add_media_content under the faults f.
MediaFailure(f) ==
  IF Fails(f, "add_media") THEN "insert"
  ELSE IF Fails(f, "refresh_media") THEN "refresh"
  ELSE None

\* The read of an attribute of the post row at the point name raises: the row
\* is expired and the query that reloads it fails.
ReloadFails(l, f, name) == l.expired /\ Fails(f, name)

\* The locals after a read of the post row that went through.
Reloaded(l) == [l EXCEPT !.expired = FALSE]

\* The locals after a store call that commits or rolls back.
Expired(l) == [l EXCEPT !.expired = TRUE]

\* ------------------------------------------------------------ requests
Text(content) == [type |-> "text", content |-> content]
Link(content) == [type |-> "link", content |-> content]

\* Creation requests: the media kind with a list of data sources.
CreateRequests ==
  { [media |-> "none",  sources |-> <<Text("a")>>],
    [media |-> "image", sources |-> <<Link("u"), Text("a")>>],
    [media |-> "both",  sources |-> <<Link("u")>>],
    [media |-> "video", sources |-> <<Text("a"), Link("u")>>] }

\* What get_text_content_from_website returns for a link: text, or "" on failure.
ExtractOutcomes == {"text", ""}

\* What the text gateway does: raise, or answer a raw text. has_object tells
\* whether the raw text was built around a well-formed JSON object. The raw
\* texts without one are built on the empty object and on one with entries.
TextOutcomes(bodies) ==
  {[raised |-> TRUE, raw |-> <<>>, has_object |-> FALSE]}
  \cup {[raised |-> FALSE, raw |-> r, has_object |-> TRUE] :
          r \in UNION {GoodRaws(b) : b \in bodies}}
  \cup {[raised |-> FALSE, raw |-> r, has_object |-> TRUE] :
          r \in TrailingRaws(CHOOSE b \in bodies : TRUE)}
  \cup {[raised |-> FALSE, raw |-> r, has_object |-> FALSE] :
          r \in BadRaws(EmptyBody)
                \cup BadRaws(CHOOSE b \in bodies : b.variations # <<>>)}

\* generate_image_freepik, the POST that creates the remote task (lines 32-35):
\* the answer carries a task id, or none (an error body without data.task_id),
\* or the call or the reading of its answer raises.
CreateOutcomes == {"task", "no_task", "raise"}

\* generate_image_freepik, one poll of the task's status (lines 41-55). A task
\* that was created reports COMPLETED, FAILED or another status; the status URL
\* of a task id None answers without a status. A poll can run into ReadTimeout
\* or raise another error.
PollAnswers(task_id) ==
  (IF task_id = None THEN {"OTHER"} ELSE {"COMPLETED", "FAILED", "OTHER"})
  \cup {"ReadTimeout", "raise"}

\* generate_image_freepik lines 58-71: the image is downloaded and written, or
\* one of the steps raises.
DownloadOutcomes == {"path", "raise"}

AllPollAnswers == {"COMPLETED", "FAILED", "OTHER", "ReadTimeout", "raise"}

\* upload_image_to_storage: a URL, "" (ClientError caught), or an exception; a
\* file that was never written cannot be uploaded.
UploadOutcomes(image_path) ==
  IF image_path = "" THEN {"", "raise"} ELSE {"url", "", "raise"}

AllTextOutcomes == TextOutcomes(Bodies)

\* ------------------------------------------------------------------ locals
InitLoc ==
  [post_id |-> "px", success |-> "none", exc |-> None, error_msg |-> None,
   data_sources |-> <<>>, idx |-> 0, context |-> <<>>,
   failed_links |-> 0, answered |-> FALSE, has_object |-> FALSE,
   parsed |-> EmptyBody, got_response |-> FALSE, i |-> 0,
   j |-> 0, mediaCount |-> 0, task_id |-> None, image_path |-> None,
   complete_text |-> <<>>, complete_media |-> <<>>,
   sink |-> "websocket", ws |-> 0, emitted |-> <<>>, timed_out |-> FALSE,
   results |-> <<>>, prompt_context |-> <<>>, expired |-> FALSE]

\* A message on a websocket. by: the connection whose coroutine sent it.
Event(type, step, arg, by) ==
  [type |-> type, step |-> step, arg |-> arg, error |-> None,
   text |-> <<>>, media |-> <<>>, by |-> by]

\* The outcome of a segment: the store, the locals and the next await.
Ret(d, l, next) == [db |-> d, loc |-> l, pc |-> next]

\* ------------------------------------------- websocket_updates, after the run
\* websocket_updates lines 178-210: success is what generate_post returned.
AfterGenerate(d, l, success, f) ==
  IF success
  THEN Ret(d, [l EXCEPT !.success = "true",
                        !.complete_text = get_text_variations(d, l.post_id, Fails(f, "get_text")),
                        !.complete_media = get_media_contents(d, l.post_id, Fails(f, "get_media"))],
           "send_complete")
  ELSE LET post_data == get_post(d, l.post_id, Fails(f, "get_post"))
           msg == IF post_data.found THEN post_data.post.error_message ELSE "Unknown error"
       IN Ret(d, [l EXCEPT !.success = "false", !.error_msg = msg], "send_error")

\* ------------------------------------------------------------ generate_post
\* An _update_post_error that records the status but not the message.
update_post_error_without_message(d, post_id, error, fail) ==
  update_post_status(d, post_id, FAILED, None, None, fail)

\* GeminiAgentService._update_post_error
update_post_error(d, post_id, error, fail) ==
  update_post_status(d, post_id, FAILED, None, error, fail)

\* An except branch of a run that is one transaction: the rows of the run are
\* rolled back before the failure is recorded.
ExceptBranch_rolls_back(d, l, msg, f) ==
  LET d1 == delete_media_contents(delete_text_variations(d, l.post_id, FALSE),
                                  l.post_id, FALSE)
  IN AfterGenerate(update_post_error(d1, l.post_id, msg, Fails(f, "update_status")),
                   [l EXCEPT !.exc = msg, !.expired = TRUE], FALSE, f)

\* generate_post lines 189-192: the except branch, e being an error of message
\* msg. The log line (190) reads post.id: a store error there leaves
\* generate_post with nothing recorded.
ExceptBranch(d, l, msg, f) ==
  IF ReloadFails(l, f, "reload_except")
  THEN Ret(d, [l EXCEPT !.success = "raised", !.exc = ErrStore, !.error_msg = ErrStore],
           "send_exception")
  ELSE AfterGenerate(update_post_error(d, l.post_id, msg, Fails(f, "update_status")),
                     [l EXCEPT !.exc = msg, !.expired = TRUE], FALSE, f)

\* generate_post lines 176-186, up to the await of the "completed" event: the
\* status is written (its commit expires the post row) and post.id is read
\* before (178) and after it (183).
Finalize(d, l, f) ==
  IF ReloadFails(l, f, "reload_completed") THEN ExceptBranch(d, l, ErrStore, f)
  ELSE LET d1 == update_post_status(d, l.post_id, COMPLETED, "Post generation completed",
                                    None, Fails(f, "update_status"))
       IN IF ReloadFails(Expired(l), f, "reload_content")
          THEN ExceptBranch(d1, Expired(l), ErrStore, f)
          ELSE Ret(d1, Reloaded(l), "progress_completed")

\* generate_post lines 154-174: the image loop, at prompt l.j, up to the await
\* of the image gateway, whose file name reads post.id (161).
ImageLoop(d, l, f) ==
  IF l.j <= Len(l.parsed.image_prompts)
  THEN IF ReloadFails(l, f, "reload_file_name") THEN ExceptBranch(d, l, ErrStore, f)
       ELSE Ret(d, Reloaded(l), "image_call")
  ELSE Finalize(d, l, f)

\* A media step whose counter starts at 0.
MediaStep_counts_from_zero(d, l, f) ==
  LET l1 == [l EXCEPT !.mediaCount = 0]
  IN IF d.posts[l.post_id].media_content_needed \in {"image", "both"}
     THEN Ret(d, l1, "progress_media")
     ELSE Ret(update_post_status(d, l.post_id, COMPLETED, "Post generation completed", None,
                                 Fails(f, "update_status")),
              l1, "progress_completed")

\* A media step that generates images whatever the media kind of the post.
MediaStep_always(d, l, f) ==
  Ret(d, [l EXCEPT !.mediaCount = 1], "progress_media")

\* generate_post lines 150-153: line 151 reads post.media_content_needed.
MediaStep(d, l, f) ==
  LET l1 == [l EXCEPT !.mediaCount = 1]
  IN IF ReloadFails(l1, f, "reload_media_needed") THEN ExceptBranch(d, l1, ErrStore, f)
     ELSE IF d.posts[l.post_id].media_content_needed \in {"image", "both"}
     THEN Ret(d, Reloaded(l1), "progress_media")
     ELSE Finalize(d, Reloaded(l1), f)

\* generate_post lines 134-148: the variations loop, at entry l.i, up to the
\* next await: the progress event of a variation whose add_text_variation
\* returned an id (line 143).
RECURSIVE VariationLoop(_, _, _, _)
VariationLoop(c, d, l, f) ==
  IF l.i > Len(l.parsed.variations) THEN MediaStep(d, l, f)
  ELSE LET e == l.parsed.variations[l.i]
           r == add_text_variation(d, <<c, "t", l.i>>, l.post_id,
                                   e.variation_number, e.text_content, TextFailure(f, l.i))
       IN IF ~e.has_number THEN ExceptBranch(d, l, ErrKeyNumber, f)
          ELSE IF ~e.has_text THEN ExceptBranch(d, l, ErrKeyText, f)
          ELSE IF ~r.ok THEN VariationLoop(c, r.db, [Expired(l) EXCEPT !.i = @ + 1], f)
          ELSE Ret(r.db, Expired(l), "progress_variation")

\* generate_post lines 128-132: the gateway's answer is sanitized and parsed.
AfterTextCall(c, d, l, outcome, f) ==
  IF outcome.raised THEN ExceptBranch(d, l, ErrTextGateway, f)
  ELSE LET r == parse_json_from_string(Sanitize(outcome.raw))
           l1 == [l EXCEPT !.answered = TRUE, !.has_object = outcome.has_object]
       IN IF ~r.ok THEN ExceptBranch(d, l1, r.error, f)
          ELSE VariationLoop(c, d, [l1 EXCEPT !.parsed = r.value, !.got_response = TRUE,
                                              !.i = 1], f)

\* The separator between two segments of the context.
Sep == <<"separator", "---">>

\* A join that ends every segment with the separator.
RECURSIVE JoinContext_trailing_separator(_)
JoinContext_trailing_separator(segs) ==
  IF segs = <<>> THEN <<>>
  ELSE <<Head(segs), Sep>> \o JoinContext_trailing_separator(Tail(segs))

\* generate_post line 116: "\n\n---\n\n".join(extracted_contexts), as the
\* sequence of the segments with the separator between two of them.
RECURSIVE JoinContext(_)
JoinContext(segs) ==
  IF segs = <<>> THEN <<>>
  ELSE IF Len(segs) = 1 THEN segs
  ELSE <<Head(segs), Sep>> \o JoinContext(Tail(segs))

\* generate_post lines 97-116: the sources loop, at source l.idx; after the
\* last source the context of the prompt is joined.
SourceLoop(d, l) ==
  IF l.idx <= Len(l.data_sources) THEN Ret(d, l, "progress_source")
  ELSE Ret(d, [l EXCEPT !.prompt_context = JoinContext(l.context)], "text_call")

\* A source loop that keeps the empty text of a failed extraction.
Extracted_keeps_empty(src, x) ==
  IF src.type = "link" THEN <<<<"extracted", IF x # "" THEN src.content ELSE "">>>>
  ELSE IF src.type = "text" THEN <<<<"verbatim", src.content>>>>
  ELSE <<>>

\* generate_post lines 107-113: what source src adds to extracted_contexts.
Extracted(src, x) ==
  IF src.type = "link" THEN (IF x # "" THEN <<<<"extracted", src.content>>>> ELSE <<>>)
  ELSE IF src.type = "text" THEN <<<<"verbatim", src.content>>>>
  ELSE <<>>

\* generate_post lines 81-92: entry, up to the await of the first progress event.
EnterGenerate(d, l, f) ==
  IF Fails(f, "query_post")
  THEN Ret(d, [l EXCEPT !.success = "raised", !.exc = ErrStore, !.error_msg = ErrStore],
           "send_exception")
  ELSE IF ~d.posts[l.post_id].exists THEN AfterGenerate(d, l, FALSE, f)
  ELSE Ret(d, l, "progress_start")

\* ------------------------------------------------------ ConnectionManager
\* ConnectionManager.disconnect
disconnect(reg, post_id) ==
  IF reg[post_id] # 0 THEN [reg EXCEPT ![post_id] = 0] ELSE reg

\* A send_message that puts the message ahead of the ones already sent.
send_message_newest_first(reg, dl, open, ws, post_id, message) ==
  IF open[ws]
  THEN [reg |-> reg, dl |-> [dl EXCEPT ![ws] = <<message>> \o @]]
  ELSE [reg |-> disconnect(reg, post_id), dl |-> dl]

\* ConnectionManager.send_message, from the return of the send_json it awaits
\* (lines 62-65). ws: the websocket that was registered for the post when
\* send_message was called (lines 60-62); reg: the registry now. send_json on
\* a websocket that is not open raises; the error is logged and whatever is
\* registered for the post now is removed.
send_message(reg, dl, open, ws, post_id, message) ==
  IF open[ws]
  THEN [reg |-> reg, dl |-> [dl EXCEPT ![ws] = Append(@, message)]]
  ELSE [reg |-> disconnect(reg, post_id), dl |-> dl]

\* The progress sinks generate_post can be given: the callback of
\* websocket_updates (progress_callback, lines 163-170), no callback, or a
\* callback that raises on every call.
RouteSink == {"websocket"}
AnySink == {"websocket", "none", "raising"}

\* A _send_progress that lets the error of the callback escape.
send_progress_propagates(reg, l) ==
  IF l.sink = "none" THEN [awaits |-> 0, raised |-> FALSE]
  ELSE IF l.sink = "raising" THEN [awaits |-> 0, raised |-> TRUE]
  ELSE [awaits |-> reg[l.post_id], raised |-> FALSE]

\* GeminiAgentService._send_progress, up to its first await. Nothing happens
\* without a callback; an error of the callback is logged and swallowed; the
\* callback of websocket_updates calls ConnectionManager.send_message, which
\* awaits send_json on the websocket registered for the post and returns at
\* once when there is none (line 60). awaits: that websocket, 0 when the call
\* returns without an await.
send_progress(reg, l) ==
  IF l.sink = "none" THEN [awaits |-> 0, raised |-> FALSE]
  ELSE IF l.sink = "raising" THEN [awaits |-> 0, raised |-> FALSE]
  ELSE [awaits |-> reg[l.post_id], raised |-> FALSE]

\* The places of generate_post where _send_progress is awaited.
SendPoints ==
  {"progress_start", "progress_source", "progress_variation", "progress_media",
   "progress_completed"}

\* The progress event _send_progress is called with at point, by connection c
\* with locals l.
ProgressEvent(c, l, point) ==
  CASE point = "progress_start" -> Event("progress", "generating_text", 0, c)
    [] point = "progress_source" -> Event("progress", "extracting_context", l.idx, c)
    [] point = "progress_variation" ->
         Event("progress", "generating_text", l.parsed.variations[l.i].variation_number, c)
    [] point = "progress_media" -> Event("progress", "generating_media", 0, c)
    [] point = "progress_completed" -> Event("progress", "completed", 0, c)

\* What the extractor yields for the link sources of a post: one outcome for
\* the index of each.
ExtractionsFor(sources) ==
  [{k \in DOMAIN sources : sources[k].type = "link"} -> ExtractOutcomes]

\* generate_post lines 95-97: the data sources are read, the loop starts.
AfterProgressStart(d, l, f) ==
  SourceLoop(d, [l EXCEPT
                   !.data_sources = get_data_sources(d, l.post_id, Fails(f, "get_sources")),
                   !.idx = 1])

\* generate_post lines 107-113: source idx is extracted (xs: what the
\* extractor yields for the links); the loop goes on.
AfterProgressSource(d, l, xs) ==
  LET src == l.data_sources[l.idx]
      x == IF src.type = "link" THEN xs[l.idx] ELSE ""
  IN SourceLoop(d, [l EXCEPT
                      !.context = @ \o Extracted(src, x),
                      !.failed_links = IF src.type = "link" /\ x = "" THEN @ + 1 ELSE @,
                      !.results = Append(@, IF src.type = "link" THEN x ELSE src.content),
                      !.idx = @ + 1])

\* generate_post from the return of the _send_progress at point up to the next
\* call of _send_progress or the next await.
AfterSend(c, d, l, point, xs, f) ==
  CASE point = "progress_start" -> AfterProgressStart(d, l, f)
    [] point = "progress_source" -> AfterProgressSource(d, l, xs)
    [] point = "progress_variation" -> VariationLoop(c, d, [l EXCEPT !.i = @ + 1], f)
    [] point = "progress_media" -> ImageLoop(d, [l EXCEPT !.j = 1], f)
    [] point = "progress_completed" -> AfterGenerate(d, l, TRUE, f)

\* generate_post from outcome r, which may stand at a call of _send_progress,
\* up to the next await at which the coroutine is suspended. A call that
\* awaits send_json keeps the websocket it sends on in ws; a call that awaits
\* nothing returns at once and the code goes on; a call that raised takes the
\* except branch.
RECURSIVE Proceed(_, _, _, _, _)
Proceed(c, r, reg, xs, f) ==
  IF r.pc \notin SendPoints THEN r
  ELSE LET l == r.loc
           s == send_progress(reg, l)
           l1 == [l EXCEPT !.emitted = Append(@, ProgressEvent(c, l, r.pc))]
       IN IF s.raised THEN ExceptBranch(r.db, l1, ErrSink, f)
          ELSE IF s.awaits # 0 THEN Ret(r.db, [l EXCEPT !.ws = s.awaits], r.pc)
          ELSE Proceed(c, AfterSend(c, r.db, l1, r.pc, xs, f), reg, xs, f)

\* websocket_updates lines 151-153: Reset.
Reset(d, post_id, f) ==
  delete_media_contents(
    delete_text_variations(
      clear_progress_messages(d, post_id, Fails(f, "clear")),
      post_id, Fails(f, "del_text")),
    post_id, Fails(f, "del_media"))

\* ------------------------------------------------------------------ select
\* The reply of the select endpoint: the HTTP status and, on 200, the body;
\* with it, the post it is about and the request that was handed to
\* create_selection (NoRequest when the endpoint rejected before).
Reply(post_id, request, code, selection_id, unwanted_media_count) ==
  [post_id |-> post_id, request |-> request, code |-> code,
   selection_id |-> selection_id, unwanted_media_count |-> unwanted_media_count]

\* The id of no row: the selection id of a reply that carries none.
NoId == <<>>

NoRequest == [text_variation_id |-> NoId, image_ids |-> <<>>, video_ids |-> <<>>]

NoReply == Reply(None, NoRequest, 0, NoId, 0)

\* An id no row has.
ForeignId == <<0, "x", 0>>

\* The select requests a client sends for post p: the text variation and the
\* images are rows of the post, or a foreign id. An absent list and an empty
\* one are the same to create_selection (image_ids or []).
SelectRequests(d, p) ==
  LET texts == {r.id : r \in Range(RowsOf(d.text_variations, p))}
      media == Ids(RowsOf(d.media_contents, p))
      lists == {<<>>, media} \cup {<<media[k]>> : k \in DOMAIN media}
  IN [text_variation_id : texts \cup {ForeignId},
      image_ids : lists,
      video_ids : {<<>>, <<ForeignId>>}]

\* The select requests that name rows of post p only: one of its text
\* variations, and none, one or all of its images.
OwnSelectRequests(d, p) ==
  {req \in SelectRequests(d, p) :
     req.text_variation_id # ForeignId /\ req.video_ids = <<>>}

\* ---------------------------------------------------------------- actions
Init ==
  /\ db = EmptyDb
  /\ active_connections = [p \in PostIds |-> 0]
  /\ pc = [c \in Conns |-> "idle"]
  /\ loc = [c \in Conns |-> InitLoc]
  /\ delivered = [c \in Conns |-> <<>>]
  /\ ws_open = [c \in Conns |-> TRUE]
  /\ selects = 0
  /\ reply = NoReply

\* The segment of connection c ends in outcome r, with registry reg and
\* websocket logs dl.
Step(c, r, reg, dl) ==
  /\ db' = r.db
  /\ loc' = [loc EXCEPT ![c] = r.loc]
  /\ pc' = [pc EXCEPT ![c] = r.pc]
  /\ active_connections' = reg
  /\ delivered' = dl
  /\ UNCHANGED <<ws_open, selects, reply>>

\* The coroutine of connection c is over (the finally clause, line 228): the
\* registration of its post is removed; its locals and its websocket, with the
\* log of it, are dropped.
Finish(c) ==
  /\ pc' = [pc EXCEPT ![c] = "closed"]
  /\ loc' = [loc EXCEPT ![c] = InitLoc]
  /\ active_connections' = disconnect(active_connections, loc[c].post_id)
  /\ delivered' = [delivered EXCEPT ![c] = <<>>]
  /\ ws_open' = [ws_open EXCEPT ![c] = TRUE]
  /\ UNCHANGED <<db, selects, reply>>

\* send_json on the websocket of connection w succeeds: its client has not
\* closed it and its coroutine is not over (the server closes the websocket
\* of a coroutine that returned).
Sendable == [w \in Conns |-> ws_open[w] /\ pc[w] # "closed"]

\* The coroutine of connection c resumes from the send_json of the progress
\* event of its send point: the event is delivered on the websocket looked up
\* at the call, or the send raised and the registration of the post is
\* removed; generate_post goes on to its next await.
Resume(c, xs, f) ==
  LET l == loc[c]
      message == ProgressEvent(c, l, pc[c])
      s == send_message(active_connections, delivered, Sendable, l.ws, l.post_id, message)
      l1 == [l EXCEPT !.emitted = Append(@, message), !.ws = 0]
  IN Step(c, Proceed(c, AfterSend(c, db, l1, pc[c], xs, f), s.reg, xs, f), s.reg, s.dl)

\* PostService.create_post, for the new id p.
create_post(p, req) ==
  /\ ~db.posts[p].exists
  /\ db' = [db EXCEPT !.posts[p] = NewPost(req.media, req.sources)]
  /\ UNCHANGED <<active_connections, pc, loc, delivered, ws_open, selects, reply>>

\* A client opens /api/posts/{p}/updates: websocket_updates starts and awaits
\* websocket.accept() in ConnectionManager.connect. Connections are numbered in
\* the order they are opened. The id of a post is drawn at its creation: a
\* client knows it only afterwards; px is an id no post ever gets.
Connect(c, p) ==
  /\ pc[c] = "idle"
  /\ db.posts[p].exists \/ p = "px"
  /\ \A d \in Conns : d < c => pc[d] # "idle"
  /\ pc' = [pc EXCEPT ![c] = "accept"]
  /\ loc' = [loc EXCEPT ![c].post_id = p]
  /\ UNCHANGED <<db, active_connections, delivered, ws_open, selects, reply>>

\* ConnectionManager.connect after accept, then Reset (lines 49, 151-153), up
\* to the await of the "connected" message.
Accept(c, f) ==
  /\ pc[c] = "accept"
  /\ Step(c, Ret(Reset(db, loc[c].post_id, f), loc[c], "send_connected"),
          [active_connections EXCEPT ![loc[c].post_id] = c], delivered)

\* The "connected" message is sent; generate_post starts, with one of sinks as
\* its progress callback. On a websocket its client has closed send_json
\* raises: the coroutine is over (lines 214-228).
SendConnected(c, sinks, f) ==
  /\ pc[c] = "send_connected"
  /\ IF ws_open[c]
     THEN \E k \in sinks, xs \in ExtractionsFor(db.posts[loc[c].post_id].sources) :
            Step(c, Proceed(c, EnterGenerate(db, [loc[c] EXCEPT !.sink = k], f),
                            active_connections, xs, f),
                 active_connections,
                 [delivered EXCEPT ![c] = Append(@, Event("connected", None, 0, c))])
     ELSE Finish(c)

\* The first progress event is sent; the data sources are read.
ProgressStart(c, f) ==
  /\ pc[c] = "progress_start"
  /\ \E xs \in ExtractionsFor(db.posts[loc[c].post_id].sources) : Resume(c, xs, f)

\* The progress event of source idx is sent; the source is extracted (xs: what
\* the extractor yields for the links).
ProgressSource(c, f) ==
  /\ pc[c] = "progress_source"
  /\ \E xs \in ExtractionsFor(db.posts[loc[c].post_id].sources) : Resume(c, xs, f)

\* The text gateway answers one of outcomes.
TextCall(c, outcomes, f) ==
  /\ pc[c] = "text_call"
  /\ \E outcome \in outcomes :
       Step(c, Proceed(c, AfterTextCall(c, db, loc[c], outcome, f),
                       active_connections, <<>>, f),
            active_connections, delivered)

\* The progress event of the variation just persisted is sent; the loop goes on.
ProgressVariation(c, f) ==
  /\ pc[c] = "progress_variation"
  /\ Resume(c, <<>>, f)

\* The "generating_media" event is sent; the image loop starts.
ProgressMedia(c, f) ==
  /\ pc[c] = "progress_media"
  /\ Resume(c, <<>>, f)

\* generate_image_freepik for prompt j: the POST that creates the task is
\* answered; the first poll is sent.
ImageCall(c, f) ==
  /\ pc[c] = "image_call"
  /\ \E o \in CreateOutcomes :
     Step(c, IF o = "raise" THEN ExceptBranch(db, loc[c], ErrImageGateway, f)
             ELSE Ret(db, [loc[c] EXCEPT !.task_id = IF o = "task" THEN "task" ELSE None],
                      "image_poll"),
          active_connections, delivered)

\* A poll that lets a ReadTimeout end the run like any other error.
ImagePoll_timeout_aborts(c, answers, f) ==
  /\ pc[c] = "image_poll"
  /\ \E a \in answers \cap PollAnswers(loc[c].task_id) :
     LET l == [loc[c] EXCEPT !.timed_out = (a = "ReadTimeout")]
     IN Step(c, CASE a \in {"raise", "ReadTimeout"} -> ExceptBranch(db, l, ErrImageGateway, f)
                  [] a = "COMPLETED" -> Ret(db, [l EXCEPT !.task_id = None], "image_download")
                  [] a = "FAILED" ->
                       Ret(db, [l EXCEPT !.task_id = None, !.image_path = ""], "upload_call")
                  [] OTHER -> Ret(db, l, "image_sleep"),
             active_connections, delivered)

\* The poll of the task's status is answered one of answers. timed_out tells
\* whether the poll ran into ReadTimeout (lines 45-48).
ImagePoll(c, answers, f) ==
  /\ pc[c] = "image_poll"
  /\ \E a \in answers \cap PollAnswers(loc[c].task_id) :
     LET l == [loc[c] EXCEPT !.timed_out = (a = "ReadTimeout")]
     IN Step(c, CASE a = "raise" -> ExceptBranch(db, l, ErrImageGateway, f)
                  [] a = "COMPLETED" -> Ret(db, [l EXCEPT !.task_id = None], "image_download")
                  [] a = "FAILED" ->
                       Ret(db, [l EXCEPT !.task_id = None, !.image_path = ""], "upload_call")
                  [] OTHER -> Ret(db, l, "image_sleep"),
             active_connections, delivered)

\* asyncio.sleep(5) is over; the next poll is sent.
ImageSleep(c) ==
  /\ pc[c] = "image_sleep"
  /\ Step(c, Ret(db, [loc[c] EXCEPT !.timed_out = FALSE], "image_poll"),
          active_connections, delivered)

\* The image of the completed task is downloaded and written.
ImageDownload(c, f) ==
  /\ pc[c] = "image_download"
  /\ \E o \in DownloadOutcomes :
     Step(c, IF o = "raise" THEN ExceptBranch(db, loc[c], ErrImageGateway, f)
             ELSE Ret(db, [loc[c] EXCEPT !.image_path = o], "upload_call"),
          active_connections, delivered)

\* upload_image_to_storage answers u; the media row is added (lines 164-174).
UploadCall(c, f) ==
  /\ pc[c] = "upload_call"
  /\ \E u \in UploadOutcomes(loc[c].image_path) :
     LET l == loc[c]
         r == add_media_content(db, <<c, "m", l.j>>, l.post_id, l.mediaCount, u,
                                l.parsed.image_prompts[l.j], MediaFailure(f))
         l1 == [Expired(l) EXCEPT !.mediaCount = @ + 1, !.j = @ + 1]
     IN Step(c, IF u = "raise" THEN ExceptBranch(db, l, ErrUpload, f)
                ELSE Proceed(c, ImageLoop(r.db, l1, f), active_connections, <<>>, f),
             active_connections, delivered)

\* The "completed" progress event is sent; generate_post returns True.
ProgressCompleted(c, f) ==
  /\ pc[c] = "progress_completed"
  /\ Resume(c, <<>>, f)

\* A text list of the "complete" message that leaves out the last row.
text_variation_ids_without_last(rows) ==
  [k \in 1..(Len(rows) - 1) |->
     [id |-> rows[k].id, variation_number |-> rows[k].variation_number,
      text_content |-> rows[k].text_content]]

\* websocket_updates lines 187-200: the fields of the rows the "complete"
\* message carries.
text_variation_ids(rows) ==
  [k \in DOMAIN rows |->
     [id |-> rows[k].id, variation_number |-> rows[k].variation_number,
      text_content |-> rows[k].text_content]]

media_content_ids(rows) ==
  [k \in DOMAIN rows |->
     [id |-> rows[k].id, media_type |-> rows[k].media_type,
      variation_number |-> rows[k].variation_number, file_path |-> rows[k].file_path,
      generation_prompt |-> rows[k].generation_prompt]]

\* websocket_updates lines 182-201, then the await of asyncio.sleep(2).
SendComplete(c) ==
  /\ pc[c] = "send_complete"
  /\ IF ws_open[c]
     THEN Step(c, Ret(db, loc[c], "sleeping"), active_connections,
               [delivered EXCEPT ![c] =
                  Append(@, [Event("complete", None, 0, c) EXCEPT
                               !.text = text_variation_ids(loc[c].complete_text),
                               !.media = media_content_ids(loc[c].complete_media)])])
     ELSE Finish(c)

\* websocket_updates lines 205-210, then the await of asyncio.sleep(2).
SendError(c) ==
  /\ pc[c] = "send_error"
  /\ IF ws_open[c]
     THEN Step(c, Ret(db, loc[c], "sleeping"), active_connections,
               [delivered EXCEPT ![c] =
                  Append(@, [Event("error", None, 0, c) EXCEPT !.error = loc[c].error_msg])])
     ELSE Finish(c)

\* websocket_updates lines 216-228: generate_post raised; the error is sent and
\* the finally clause runs. The coroutine is over: its locals and the log of
\* its websocket are dropped.
SendException(c) ==
  /\ pc[c] = "send_exception"
  /\ Finish(c)

\* The sleep ends; the finally clause runs (line 228). The coroutine is over:
\* its locals and the log of its websocket are dropped.
Wake(c) ==
  /\ pc[c] = "sleeping"
  /\ Finish(c)

\* The client of connection c closes its websocket.
ClientClose(c) ==
  /\ pc[c] \notin {"idle", "accept", "closed"}
  /\ ws_open[c]
  /\ ws_open' = [ws_open EXCEPT ![c] = FALSE]
  /\ UNCHANGED <<db, active_connections, pc, loc, delivered, selects, reply>>

\* A select endpoint that stores the selection whatever the status of the post.
choose_variation_unchecked(p, req, f) ==
  LET got == get_post(db, p, Fails(f, "get_post"))
      r == create_selection(db, <<"s", selects + 1>>, p, req.text_variation_id,
                            req.image_ids, req.video_ids, SelectionFailure(f))
  IN /\ IF ~got.found
        THEN /\ reply' = Reply(p, NoRequest, 404, NoId, 0)
             /\ UNCHANGED <<db, selects>>
        ELSE /\ selects < MaxSelects
             /\ db' = r.db
             /\ selects' = selects + 1
             /\ reply' = IF r.ok THEN Reply(p, req, 200, r.selection_id, r.unwanted_media_count)
                         ELSE Reply(p, req, 500, NoId, 0)
     /\ UNCHANGED <<active_connections, pc, loc, delivered, ws_open>>

\* POST /api/posts/{p}/select with request req (choose_variation): 404 when
\* the post is not found, 400 unless its status is completed, 500 when the
\* selection cannot be stored, else 200.
choose_variation(p, req, f) ==
  LET got == get_post(db, p, Fails(f, "get_post"))
      r == create_selection(db, <<"s", selects + 1>>, p, req.text_variation_id,
                            req.image_ids, req.video_ids, SelectionFailure(f))
  IN /\ IF ~got.found
        THEN /\ reply' = Reply(p, NoRequest, 404, NoId, 0)
             /\ UNCHANGED <<db, selects>>
        ELSE IF got.post.status # COMPLETED
        THEN /\ reply' = Reply(p, NoRequest, 400, NoId, 0)
             /\ UNCHANGED <<db, selects>>
        ELSE /\ selects < MaxSelects
             /\ db' = r.db
             /\ selects' = selects + 1
             /\ reply' = IF r.ok THEN Reply(p, req, 200, r.selection_id, r.unwanted_media_count)
                         ELSE Reply(p, req, 500, NoId, 0)
     /\ UNCHANGED <<active_connections, pc, loc, delivered, ws_open>>

\* No connection is open.
Quiet == \A d \in Conns : pc[d] \in {"idle", "closed"}

\* ---------------------------------------------------------- specifications
\* Spec: one client at a time (a connection is opened when none is open), a
\* store that does not fail, posts p1 (which can be created) and px (which
\* cannot).
Next ==
  \/ \E req \in CreateRequests : create_post("p1", req)
  \/ \E c \in Conns, p \in {"p1", "px"} : Quiet /\ Connect(c, p)
  \/ \E c \in Conns, f \in NoFaults : Accept(c, f)
  \/ \E c \in Conns, f \in NoFaults : SendConnected(c, RouteSink, f)
  \/ \E c \in Conns, f \in NoFaults : ProgressStart(c, f)
  \/ \E c \in Conns, f \in NoFaults : ProgressSource(c, f)
  \/ \E c \in Conns, f \in NoFaults : TextCall(c, AllTextOutcomes, f)
  \/ \E c \in Conns, f \in NoFaults : ProgressVariation(c, f)
  \/ \E c \in Conns, f \in NoFaults : ProgressMedia(c, f)
  \/ \E c \in Conns, f \in NoFaults : ImageCall(c, f)
  \/ \E c \in Conns, f \in NoFaults : ImagePoll(c, AllPollAnswers, f)
  \/ \E c \in Conns : ImageSleep(c)
  \/ \E c \in Conns, f \in NoFaults : ImageDownload(c, f)
  \/ \E c \in Conns, f \in NoFaults : UploadCall(c, f)
  \/ \E c \in Conns, f \in NoFaults : ProgressCompleted(c, f)
  \/ \E c \in Conns : SendComplete(c)
  \/ \E c \in Conns : SendError(c)
  \/ \E c \in Conns : Wake(c)

Spec == Init /\ [][Next]_vars

\* A response with one well-formed variation and one image prompt, and the
\* gateway outcomes built on it.
OneOfEach ==
  [has_variations |-> TRUE, variations |-> <<MkEntry(1, 1)>>,
   has_image_prompts |-> TRUE, image_prompts |-> <<1>>]

FewTextOutcomes == TextOutcomes({OneOfEach})

\* The responses under store faults: OneOfEach and one whose second entry
\* lacks "variation_number" (the except branch then runs after the first
\* variation is committed).
SecondUnnumbered ==
  [has_variations |-> TRUE, variations |-> <<MkEntry(1, 1), MkEntry(2, 0)>>,
   has_image_prompts |-> TRUE, image_prompts |-> <<>>]
FaultTextOutcomes == TextOutcomes({OneOfEach, SecondUnnumbered})

\* The requests that ask for no media.
TextOnlyRequests == {req \in CreateRequests : req.media = "none"}

\* SpecConc: clients open connections at any time, also on a post another
\* connection is serving; the store does not fail; the posts ask for no media.
NextConc ==
  \/ \E req \in TextOnlyRequests : create_post("p1", req)
  \/ \E c \in Conns : Connect(c, "p1")
  \/ \E c \in Conns, f \in NoFaults : Accept(c, f)
  \/ \E c \in Conns, f \in NoFaults : SendConnected(c, RouteSink, f)
  \/ \E c \in Conns, f \in NoFaults : ProgressStart(c, f)
  \/ \E c \in Conns, f \in NoFaults : ProgressSource(c, f)
  \/ \E c \in Conns, f \in NoFaults : TextCall(c, FewTextOutcomes, f)
  \/ \E c \in Conns, f \in NoFaults : ProgressVariation(c, f)
  \/ \E c \in Conns, f \in NoFaults : ProgressCompleted(c, f)
  \/ \E c \in Conns : SendComplete(c)
  \/ \E c \in Conns : SendError(c)
  \/ \E c \in Conns : Wake(c)

SpecConc == Init /\ [][NextConc]_vars

\* SpecFaults: one client at a time; in each segment at most one store
\* operation fails with an SQLAlchemyError.
NextFaults ==
  \/ \E req \in CreateRequests : create_post("p1", req)
  \/ \E c \in Conns, p \in {"p1", "px"} : Quiet /\ Connect(c, p)
  \/ \E c \in Conns, f \in SingleFaults : Accept(c, f)
  \/ \E c \in Conns, f \in SingleFaults : SendConnected(c, RouteSink, f)
  \/ \E c \in Conns, f \in SingleFaults : ProgressStart(c, f)
  \/ \E c \in Conns, f \in NoFaults : ProgressSource(c, f)
  \/ \E c \in Conns, f \in SingleFaults : TextCall(c, FaultTextOutcomes, f)
  \/ \E c \in Conns, f \in SingleFaults : ProgressVariation(c, f)
  \/ \E c \in Conns, f \in SingleFaults : ProgressMedia(c, f)
  \/ \E c \in Conns, f \in SingleFaults : ImageCall(c, f)
  \/ \E c \in Conns, f \in SingleFaults : ImagePoll(c, AllPollAnswers, f)
  \/ \E c \in Conns : ImageSleep(c)
  \/ \E c \in Conns, f \in SingleFaults : ImageDownload(c, f)
  \/ \E c \in Conns, f \in SingleFaults : UploadCall(c, f)
  \/ \E c \in Conns, f \in SingleFaults : ProgressCompleted(c, f)
  \/ \E c \in Conns : SendComplete(c)
  \/ \E c \in Conns : SendError(c)
  \/ \E c \in Conns : SendException(c)
  \/ \E c \in Conns : Wake(c)

SpecFaults == Init /\ [][NextFaults]_vars

\* The requests for a post without media and for a post with images.
TextOrImageRequests == {req \in CreateRequests : req.media \in {"none", "image"}}

\* SpecSelect: one client at a time on the progress connection, a store that
\* does not fail, a post without media or with images, and clients that send
\* select requests at any time.
NextSelect ==
  \/ \E req \in TextOrImageRequests : create_post("p1", req)
  \/ \E c \in Conns, p \in {"p1", "px"} : Quiet /\ Connect(c, p)
  \/ \E c \in Conns, f \in NoFaults : Accept(c, f)
  \/ \E c \in Conns, f \in NoFaults : SendConnected(c, RouteSink, f)
  \/ \E c \in Conns, f \in NoFaults : ProgressStart(c, f)
  \/ \E c \in Conns, f \in NoFaults : ProgressSource(c, f)
  \/ \E c \in Conns, f \in NoFaults : TextCall(c, FewTextOutcomes, f)
  \/ \E c \in Conns, f \in NoFaults : ProgressVariation(c, f)
  \/ \E c \in Conns, f \in NoFaults : ProgressMedia(c, f)
  \/ \E c \in Conns, f \in NoFaults : ImageCall(c, f)
  \/ \E c \in Conns, f \in NoFaults : ImagePoll(c, AllPollAnswers, f)
  \/ \E c \in Conns : ImageSleep(c)
  \/ \E c \in Conns, f \in NoFaults : ImageDownload(c, f)
  \/ \E c \in Conns, f \in NoFaults : UploadCall(c, f)
  \/ \E c \in Conns, f \in NoFaults : ProgressCompleted(c, f)
  \/ \E c \in Conns : SendComplete(c)
  \/ \E c \in Conns : SendError(c)
  \/ \E c \in Conns : Wake(c)
  \/ \E p \in {"p1", "px"}, f \in NoFaults :
       \E req \in SelectRequests(db, p) : choose_variation(p, req, f)

SpecSelect == Init /\ [][NextSelect]_vars

\* The response with MaxVars well-formed variations and MaxPrompts image
\* prompts, and the gateway outcome that carries it.
FullBody ==
  [has_variations |-> TRUE, variations |-> [i \in 1..MaxVars |-> MkEntry(i, i)],
   has_image_prompts |-> TRUE, image_prompts |-> [k \in 1..MaxPrompts |-> k]]

FullOutcomes ==
  {[raised |-> FALSE, raw |-> <<Tok("{"), Members(FullBody), Tok("}")>>, has_object |-> TRUE]}

\* The requests that ask for images.
ImageRequests == {req \in CreateRequests : req.media = "image"}

\* SpecReselect: one post that asks for images, one run of it that persists
\* several variations and images (some stored without a location), a store
\* that does not fail, and clients that send select requests naming rows of
\* the post at any time, before, during and after the run.
NextReselect ==
  \/ \E req \in ImageRequests : create_post("p1", req)
  \/ Connect(1, "p1")
  \/ \E c \in Conns, f \in NoFaults : Accept(c, f)
  \/ \E c \in Conns, f \in NoFaults : SendConnected(c, RouteSink, f)
  \/ \E c \in Conns, f \in NoFaults : ProgressStart(c, f)
  \/ \E c \in Conns, f \in NoFaults : ProgressSource(c, f)
  \/ \E c \in Conns, f \in NoFaults : TextCall(c, FullOutcomes, f)
  \/ \E c \in Conns, f \in NoFaults : ProgressVariation(c, f)
  \/ \E c \in Conns, f \in NoFaults : ProgressMedia(c, f)
  \/ \E c \in Conns, f \in NoFaults : ImageCall(c, f)
  \/ \E c \in Conns, f \in NoFaults : ImagePoll(c, {"COMPLETED"}, f)
  \/ \E c \in Conns, f \in NoFaults : ImageDownload(c, f)
  \/ \E c \in Conns, f \in NoFaults : UploadCall(c, f)
  \/ \E c \in Conns, f \in NoFaults : ProgressCompleted(c, f)
  \/ \E c \in Conns : SendComplete(c)
  \/ \E c \in Conns : SendError(c)
  \/ \E c \in Conns : Wake(c)
  \/ \E f \in NoFaults :
       \E req \in OwnSelectRequests(db, "p1") : choose_variation("p1", req, f)

SpecReselect == Init /\ [][NextReselect]_vars

\* The faults of a select: none, or an SQLAlchemyError in create_selection,
\* before or after the deletion of the existing selection is committed.
SelectFaults ==
  {{}, {<<"delete_selection", 0>>}, {<<"commit_selection", 0>>},
   {<<"refresh_selection", 0>>}}

\* SpecSelectFaults: SpecReselect with a store that can fail in create_selection.
NextSelectFaults ==
  \/ \E req \in ImageRequests : create_post("p1", req)
  \/ Connect(1, "p1")
  \/ \E c \in Conns, f \in NoFaults : Accept(c, f)
  \/ \E c \in Conns, f \in NoFaults : SendConnected(c, RouteSink, f)
  \/ \E c \in Conns, f \in NoFaults : ProgressStart(c, f)
  \/ \E c \in Conns, f \in NoFaults : ProgressSource(c, f)
  \/ \E c \in Conns, f \in NoFaults : TextCall(c, FullOutcomes, f)
  \/ \E c \in Conns, f \in NoFaults : ProgressVariation(c, f)
  \/ \E c \in Conns, f \in NoFaults : ProgressMedia(c, f)
  \/ \E c \in Conns, f \in NoFaults : ImageCall(c, f)
  \/ \E c \in Conns, f \in NoFaults : ImagePoll(c, {"COMPLETED"}, f)
  \/ \E c \in Conns, f \in NoFaults : ImageDownload(c, f)
  \/ \E c \in Conns, f \in NoFaults : UploadCall(c, f)
  \/ \E c \in Conns, f \in NoFaults : ProgressCompleted(c, f)
  \/ \E c \in Conns : SendComplete(c)
  \/ \E c \in Conns : SendError(c)
  \/ \E c \in Conns : Wake(c)
  \/ \E f \in SelectFaults :
       \E req \in OwnSelectRequests(db, "p1") : choose_variation("p1", req, f)

SpecSelectFaults == Init /\ [][NextSelectFaults]_vars

\* The faults of the variations loop: no fault, or the add_text_variation of
\* one variation fails with an SQLAlchemyError, at its insert or commit or at
\* the read of the id after the commit.
TextFaults ==
  {{}} \cup {{<<n, i>>} : n \in {"add_text", "refresh_text"}, i \in 1..MaxVars}

\* SpecTextFaults: one client at a time on posts without media, every
\* response of the text gateway, and a store in which the add_text_variation
\* of a variation may fail.
NextTextFaults ==
  \/ \E req \in TextOnlyRequests : create_post("p1", req)
  \/ \E c \in Conns, p \in {"p1", "px"} : Quiet /\ Connect(c, p)
  \/ \E c \in Conns, f \in NoFaults : Accept(c, f)
  \/ \E c \in Conns, f \in NoFaults : SendConnected(c, RouteSink, f)
  \/ \E c \in Conns, f \in NoFaults : ProgressStart(c, f)
  \/ \E c \in Conns, f \in NoFaults : ProgressSource(c, f)
  \/ \E c \in Conns, f \in TextFaults : TextCall(c, AllTextOutcomes, f)
  \/ \E c \in Conns, f \in TextFaults : ProgressVariation(c, f)
  \/ \E c \in Conns, f \in NoFaults : ProgressCompleted(c, f)
  \/ \E c \in Conns : SendComplete(c)
  \/ \E c \in Conns : SendError(c)
  \/ \E c \in Conns : Wake(c)

SpecTextFaults == Init /\ [][NextTextFaults]_vars

\* The arguments of update_post_status: any status, a current_step or none,
\* an error_message or none.
StatusValues ==
  {PENDING, PROCESSING_CONTEXT, GENERATING_TEXT, GENERATING_MEDIA, COMPLETED, FAILED}
StepArgs == {None, "step"}
ErrorArgs == {None, "error"}

\* A caller of the store updates the status of post p.
UpdateStatus(p, status, current_step, error_message) ==
  /\ db.posts[p].exists
  /\ db.posts[p].completed_at < MaxStamps
  /\ db' = update_post_status(db, p, status, current_step, error_message, FALSE)
  /\ UNCHANGED <<active_connections, pc, loc, delivered, ws_open, selects, reply>>

\* SpecStatus: the store operations create_post and update_post_status, called
\* in any order with any arguments.
NextStatus ==
  \/ \E req \in CreateRequests : create_post("p1", req)
  \/ \E status \in StatusValues, current_step \in StepArgs, error_message \in ErrorArgs :
       UpdateStatus("p1", status, current_step, error_message)

SpecStatus == Init /\ [][NextStatus]_vars

\* The select requests of a client that names rows of any post: a text
\* variation of the store and none or one of its images.
CrossSelectRequests(d) ==
  [text_variation_id : Range(Ids(d.text_variations)),
   image_ids : {<<>>} \cup {<<id>> : id \in Range(Ids(d.media_contents))},
   video_ids : {<<>>}]

\* SpecCross: two posts that ask for images, the first connection runs p1 and
\* the second p2, one after the other; the store does not fail; clients send
\* select requests for either post that name rows of either post.
NextCross ==
  \/ \E req \in ImageRequests, p \in {"p1", "p2"} : create_post(p, req)
  \/ Quiet /\ (Connect(1, "p1") \/ Connect(2, "p2"))
  \/ \E c \in Conns, f \in NoFaults : Accept(c, f)
  \/ \E c \in Conns, f \in NoFaults : SendConnected(c, RouteSink, f)
  \/ \E c \in Conns, f \in NoFaults : ProgressStart(c, f)
  \/ \E c \in Conns, f \in NoFaults : ProgressSource(c, f)
  \/ \E c \in Conns, f \in NoFaults : TextCall(c, FewTextOutcomes, f)
  \/ \E c \in Conns, f \in NoFaults : ProgressVariation(c, f)
  \/ \E c \in Conns, f \in NoFaults : ProgressMedia(c, f)
  \/ \E c \in Conns, f \in NoFaults : ImageCall(c, f)
  \/ \E c \in Conns, f \in NoFaults : ImagePoll(c, {"COMPLETED"}, f)
  \/ \E c \in Conns, f \in NoFaults : ImageDownload(c, f)
  \/ \E c \in Conns, f \in NoFaults : UploadCall(c, f)
  \/ \E c \in Conns, f \in NoFaults : ProgressCompleted(c, f)
  \/ \E c \in Conns : SendComplete(c)
  \/ \E c \in Conns : SendError(c)
  \/ \E c \in Conns : Wake(c)
  \/ \E p \in {"p1", "p2"}, f \in NoFaults :
       \E req \in CrossSelectRequests(db) : choose_variation(p, req, f)

SpecCross == Init /\ [][NextCross]_vars

\* SpecChannel: one client at a time and a store that does not fail;
\* generate_post is given any of the progress sinks, and the client can close
\* its websocket at any time after it was accepted.
NextChannel ==
  \/ \E req \in CreateRequests : create_post("p1", req)
  \/ \E c \in Conns, p \in {"p1", "px"} : Quiet /\ Connect(c, p)
  \/ \E c \in Conns : ClientClose(c)
  \/ \E c \in Conns, f \in NoFaults : Accept(c, f)
  \/ \E c \in Conns, f \in NoFaults : SendConnected(c, AnySink, f)
  \/ \E c \in Conns, f \in NoFaults : ProgressStart(c, f)
  \/ \E c \in Conns, f \in NoFaults : ProgressSource(c, f)
  \/ \E c \in Conns, f \in NoFaults : TextCall(c, FewTextOutcomes, f)
  \/ \E c \in Conns, f \in NoFaults : ProgressVariation(c, f)
  \/ \E c \in Conns, f \in NoFaults : ProgressMedia(c, f)
  \/ \E c \in Conns, f \in NoFaults : ImageCall(c, f)
  \/ \E c \in Conns, f \in NoFaults : ImagePoll(c, AllPollAnswers, f)
  \/ \E c \in Conns : ImageSleep(c)
  \/ \E c \in Conns, f \in NoFaults : ImageDownload(c, f)
  \/ \E c \in Conns, f \in NoFaults : UploadCall(c, f)
  \/ \E c \in Conns, f \in NoFaults : ProgressCompleted(c, f)
  \/ \E c \in Conns : SendComplete(c)
  \/ \E c \in Conns : SendError(c)
  \/ \E c \in Conns : Wake(c)

SpecChannel == Init /\ [][NextChannel]_vars

\* SpecRerun: one client at a time on a post without media, run again by
\* every later connection; generate_post is given any of the progress sinks,
\* the client can close its websocket at any time after it was accepted, and
\* clients send select requests at any time; the store does not fail.
NextRerun ==
  \/ \E req \in TextOnlyRequests : create_post("p1", req)
  \/ \E c \in Conns, p \in {"p1", "px"} : Quiet /\ Connect(c, p)
  \/ \E c \in Conns : ClientClose(c)
  \/ \E c \in Conns, f \in NoFaults : Accept(c, f)
  \/ \E c \in Conns, f \in NoFaults : SendConnected(c, AnySink, f)
  \/ \E c \in Conns, f \in NoFaults : ProgressStart(c, f)
  \/ \E c \in Conns, f \in NoFaults : ProgressSource(c, f)
  \/ \E c \in Conns, f \in NoFaults : TextCall(c, FewTextOutcomes, f)
  \/ \E c \in Conns, f \in NoFaults : ProgressVariation(c, f)
  \/ \E c \in Conns, f \in NoFaults : ProgressCompleted(c, f)
  \/ \E c \in Conns : SendComplete(c)
  \/ \E c \in Conns : SendError(c)
  \/ \E c \in Conns : Wake(c)
  \/ \E p \in {"p1", "px"}, f \in NoFaults :
       \E req \in SelectRequests(db, p) : choose_variation(p, req, f)

SpecRerun == Init /\ [][NextRerun]_vars

\* SpecLive: one client at a time and a store that does not fail, with the
\* scheduling the event loop and the proviso of the termination property give:
\* a coroutine whose await is over is resumed (every external call returns), and
\* a remote image task that was created reports a terminal status in the end.
RunStep(c) ==
  \/ Accept(c, {})
  \/ SendConnected(c, RouteSink, {})
  \/ ProgressStart(c, {})
  \/ ProgressSource(c, {})
  \/ TextCall(c, FewTextOutcomes, {})
  \/ ProgressVariation(c, {})
  \/ ProgressMedia(c, {})
  \/ ImageCall(c, {})
  \/ ImagePoll(c, AllPollAnswers, {})
  \/ ImageSleep(c)
  \/ ImageDownload(c, {})
  \/ UploadCall(c, {})
  \/ ProgressCompleted(c, {})
  \/ SendComplete(c)
  \/ SendError(c)
  \/ Wake(c)

TaskReports(c) ==
  loc[c].task_id # None /\ ImagePoll(c, {"COMPLETED", "FAILED"}, {})

NextLive ==
  \/ \E req \in CreateRequests : create_post("p1", req)
  \/ \E c \in Conns, p \in {"p1", "px"} : Quiet /\ Connect(c, p)
  \/ \E c \in Conns : RunStep(c)

Fairness ==
  \A c \in Conns : WF_vars(RunStep(c)) /\ SF_vars(TaskReports(c))

SpecLive == Init /\ [][NextLive]_vars /\ Fairness

\* ------------------------------------------------------------------ claims
Status(p) == db.posts[p].status
TextRows(p) == RowsOf(db.text_variations, p)
MediaRows(p) == RowsOf(db.media_contents, p)

\* Connection c is inside generate_post (entered, not yet returned).
InRun(c) ==
  pc[c] \in {"progress_start", "progress_source", "text_call", "progress_variation",
             "progress_media", "image_call", "image_poll", "image_sleep",
             "image_download", "upload_call", "progress_completed"}

\* generate_post of connection c has just returned False after an error was raised.
ReturnedFalseAfterRaise(c) ==
  pc[c] = "send_error" /\ loc[c].exc # None

\* The status changes of the documented lifecycle, for a post whose media kind
\* is media.
LifecycleStep(old, new, media) ==
  \/ new = FAILED
  \/ old = PENDING /\ new = PROCESSING_CONTEXT
  \/ old = PROCESSING_CONTEXT /\ new = GENERATING_TEXT
  \/ old = GENERATING_TEXT /\ new = GENERATING_MEDIA /\ media \in {"image", "both"}
  \/ old = GENERATING_TEXT /\ new = COMPLETED /\ media \notin {"image", "both"}
  \/ old = GENERATING_MEDIA /\ new = COMPLETED

\* The terminal statuses.
Terminal == {COMPLETED, FAILED}

\* In this step generate_post of connection c writes its final status.
\* After the write of COMPLETED (lines 177-180) the coroutine stops at the
\* await of the "completed" event or, when that send does not suspend (no
\* callback, a callback that raises, no websocket registered), runs on to the
\* complete message of websocket_updates; after the write of FAILED (line 191)
\* it stops at the error message.
RunEnds(c) ==
  InRun(c) /\ pc[c] # "progress_completed"
    /\ pc'[c] \in {"progress_completed", "send_complete", "send_error"}

\* The ids of the first n rows of a kind that connection c writes.
RowsWrittenBy(c, kind, n) == [k \in 1..n |-> <<c, kind, k>>]

\* Connection c is past accept and not yet closed.
Serving(c) == pc[c] \notin {"idle", "accept", "closed"}

\* The positions of the entries of a response that lack their number or text.
DefectiveEntries(body) ==
  {k \in DOMAIN body.variations :
     ~body.variations[k].has_number \/ ~body.variations[k].has_text}

\* The response deviates from the shape the prompt asks for.
Deviates(body) ==
  ~body.has_variations \/ ~body.has_image_prompts \/ DefectiveEntries(body) # {}

\* C1: during a run the persisted status moves pending -> processing_context ->
\* generating_text -> generating_media (only when media is requested) ->
\* completed; every status change is the next step of this order or a move to
\* failed.
C1_StatusFollowsLifecycle ==
  [][\A p \in PostIds :
       Status(p)' # Status(p)
         => LifecycleStep(Status(p), Status(p)', db.posts[p].media_content_needed)]_vars

\* C2 as stated: once a Post's status is completed or failed, no later
\* operation changes it.
C2_TerminalIsFinal ==
  [][\A p \in PostIds : Status(p) \in Terminal => Status(p)' = Status(p)]_vars

\* C2 amended: select never changes a Post's status, nor does opening a
\* progress connection or its Reset; a terminal status changes only when a run
\* started by a later connection on that Post ends and writes its own final
\* status, which moves completed to failed or failed to completed.
C2_TerminalLeftOnlyByRunEnd ==
  [][\A p \in PostIds :
       Status(p) \in Terminal /\ Status(p)' # Status(p)
         => /\ Status(p)' \in Terminal
            /\ reply' = reply
            /\ \E c \in Conns : loc[c].post_id = p /\ RunEnds(c)]_vars

\* A post that an earlier run left failed (its error_message is still there)
\* is completed by the run of a later connection that has no progress
\* callback, its final step running on to the complete message, and a select
\* on it is answered 200.
C2_Witness ==
  \E c \in Conns :
    /\ c > 1 /\ pc[c] = "send_complete" /\ loc[c].sink = "none"
    /\ db.posts[loc[c].post_id].error_message # None
    /\ Status(loc[c].post_id) = COMPLETED
    /\ reply.code = 200

\* C3: if a step of a run on an existing Post raises, generate_post returns
\* False and the Post's status is failed with error_message equal to the
\* message of that error.
C3_RaiseEndsFailedWithMessage ==
  \A c \in Conns :
    loc[c].exc # None
      => /\ pc[c] \in {"send_error", "sleeping"}
         /\ loc[c].success = "false"
         /\ db.posts[loc[c].post_id].exists
         /\ Status(loc[c].post_id) = FAILED
         /\ db.posts[loc[c].post_id].error_message = loc[c].exc

C3_Witness ==
  \E c \in Conns : ReturnedFalseAfterRaise(c) /\ loc[c].exc = ErrUpload
                   /\ Len(TextRows(loc[c].post_id)) = MaxVars

\* C4: when a run fails, a progress event with step "error" has been emitted
\* through the progress sink by the time generate_post returns.
C4_ErrorProgressEventEmitted ==
  \A c \in Conns :
    ReturnedFalseAfterRaise(c)
      => \E k \in DOMAIN delivered[c] :
           delivered[c][k].type = "progress" /\ delivered[c][k].step = "error"

\* C5: generate_post never raises to its caller, and whenever it returns False
\* for an existing Post the Post's status is failed.
C5_NeverRaisesAndFalseMeansFailed ==
  \A c \in Conns :
    /\ loc[c].success # "raised"
    /\ pc[c] = "send_error" /\ db.posts[loc[c].post_id].exists
         => Status(loc[c].post_id) = FAILED

\* C6: after any sequence of runs on a Post, its TextVariation and MediaContent
\* rows are exactly those written by the latest run: the rows of a Post a
\* connection has reset are that connection's, one per output, in order, and
\* once its run has returned True they are all the outputs of its response.
C6_OnlyLatestRunRows ==
  \A c \in Conns :
    pc[c] \notin {"idle", "accept", "closed"}
      => LET p == loc[c].post_id
         IN /\ Ids(TextRows(p)) = RowsWrittenBy(c, "t", Len(TextRows(p)))
            /\ Ids(MediaRows(p)) = RowsWrittenBy(c, "m", Len(MediaRows(p)))
            /\ loc[c].success = "true"
                 => /\ Len(TextRows(p)) = Len(loc[c].parsed.variations)
                    /\ Len(MediaRows(p)) =
                         IF db.posts[p].media_content_needed \in {"image", "both"}
                         THEN Len(loc[c].parsed.image_prompts) ELSE 0

C6_Witness ==
  \E c \in Conns :
    /\ c > 1 /\ pc[c] = "sleeping" /\ loc[c].success = "true"
    /\ Len(TextRows(loc[c].post_id)) = MaxVars
    /\ Len(MediaRows(loc[c].post_id)) = MaxPrompts

\* C7: at most one run is in progress for a Post at any time: no two open
\* connections are past accept on the same Post.
C7_OneRunPerPost ==
  \A c, d \in Conns :
    c # d /\ Serving(c) /\ Serving(d) => loc[c].post_id # loc[d].post_id

\* C8: when a run completes, the variation_number values of the Post's
\* TextVariation rows are exactly 1..K, each once, K being the number of
\* entries of the response's variations array.
C8_NumbersAreOneToK ==
  \A c \in Conns :
    loc[c].success = "true"
      => LET rows == TextRows(loc[c].post_id)
             K == Len(loc[c].parsed.variations)
         IN /\ Len(rows) = K
            /\ {rows[k].variation_number : k \in DOMAIN rows} = 1..K

\* C9: if the gateway's text holds no parseable JSON object, the run ends
\* failed with an error message recorded, generate_post returns False and the
\* Post has no TextVariation row.
C9_NoJsonEndsFailed ==
  \A c \in Conns :
    loc[c].answered /\ ~loc[c].has_object
      => /\ pc[c] \in {"send_error", "sleeping"}
         /\ loc[c].success = "false"
         /\ Status(loc[c].post_id) = FAILED
         /\ db.posts[loc[c].post_id].error_message \in {ErrNoJson, ErrDecode}
         /\ TextRows(loc[c].post_id) = <<>>

C9_Witness ==
  \E c \in Conns :
    /\ c > 1 /\ pc[c] = "send_error"
    /\ loc[c].answered /\ ~loc[c].has_object /\ loc[c].exc = ErrDecode

\* C10 as stated: a response that deviates from the expected shape (no
\* variations array, no image_prompts array, an entry without its number or
\* its text) ends the run failed with no row of that response persisted, and
\* never completed.
C10_FailsClosed ==
  \A c \in Conns :
    loc[c].got_response /\ Deviates(loc[c].parsed)
      => /\ loc[c].success # "true"
         /\ pc[c] # "progress_completed"
         /\ TextRows(loc[c].post_id) = <<>>

\* C11: a failed extraction of a link source never fails the run: the source
\* is left out of the context (the context holds one entry per source that
\* yielded text), the run goes on to text generation also with an empty
\* context, and a run in which nothing raised ends completed.
C11_ExtractionFailureNotFatal ==
  \A c \in Conns :
    InRun(c) \/ pc[c] \in {"send_complete", "send_error", "sleeping"}
      => /\ loc[c].idx > 0
            => Len(loc[c].context) = (loc[c].idx - 1) - loc[c].failed_links
         /\ pc[c] \in {"progress_source", "text_call"} => loc[c].exc = None
         /\ pc[c] \in {"send_complete", "send_error", "sleeping"} /\ loc[c].exc = None
              /\ db.posts[loc[c].post_id].exists
              => loc[c].success = "true" /\ Status(loc[c].post_id) = COMPLETED

C11_Witness ==
  \E c \in Conns :
    /\ pc[c] = "send_complete" /\ loc[c].success = "true"
    /\ loc[c].failed_links > 0 /\ loc[c].context = <<>>
    /\ Status(loc[c].post_id) = COMPLETED

\* C12: a failed image generation or a failed upload ends the run failed: a
\* run never ends completed while the Post holds a MediaContent row whose
\* storage location is empty.
C12_NoCompletedRunWithEmptyLocation ==
  \A c \in Conns :
    pc[c] \in {"progress_completed", "send_complete"}
      => \A k \in DOMAIN MediaRows(loc[c].post_id) :
           MediaRows(loc[c].post_id)[k].file_path # ""

\* C13: every run that has started eventually ends, with generate_post
\* returning and the Post completed or failed, when every external call
\* returns and every remote image task that was created reports a terminal
\* status in the end.
C13_RunEnds ==
  \A c \in Conns :
    (pc[c] = "progress_start")
      ~> (pc[c] \in {"send_complete", "send_error"}
          /\ Status(loc[c].post_id) \in Terminal)

\* The rows a run has persisted follow the gateway's response l.parsed: text row
\* k is variation k, media row k is image prompt k.
RowsFollowResponse(p, l) ==
  /\ Len(TextRows(p)) <= Len(l.parsed.variations)
  /\ \A k \in DOMAIN TextRows(p) :
        /\ TextRows(p)[k].variation_number = l.parsed.variations[k].variation_number
        /\ TextRows(p)[k].text_content = l.parsed.variations[k].text_content
  /\ Len(MediaRows(p)) <= Len(l.parsed.image_prompts)
  /\ \A k \in DOMAIN MediaRows(p) :
        /\ MediaRows(p)[k].variation_number = k
        /\ MediaRows(p)[k].generation_prompt = l.parsed.image_prompts[k]

\* C14: the store outcome of a run is a function of the post and of what the
\* extractor and the gateways answered, whatever the progress channel does (no
\* callback, a callback that raises, a client that closes mid-run): the run is
\* never ended by the channel, a run in which no collaborator raised ends
\* completed with all the rows of the response, a run in which one raised ends
\* failed with that error and the rows persisted before it.
C14_StoreOutcomeIgnoresChannel ==
  \A c \in Conns :
    pc[c] \in {"send_complete", "send_error"} /\ db.posts[loc[c].post_id].exists
      => LET l == loc[c]
             p == l.post_id
             wanted == db.posts[p].media_content_needed \in {"image", "both"}
         IN /\ l.exc # ErrSink
            /\ RowsFollowResponse(p, l)
            /\ l.exc = None
                 => /\ pc[c] = "send_complete" /\ Status(p) = COMPLETED
                    /\ Len(TextRows(p)) = Len(l.parsed.variations)
                    /\ Len(MediaRows(p)) = IF wanted THEN Len(l.parsed.image_prompts) ELSE 0
            /\ l.exc # None
                 => /\ pc[c] = "send_error" /\ Status(p) = FAILED
                    /\ db.posts[p].error_message = l.exc

\* A client closed its websocket after the first progress events: the run
\* went on and completed with its rows.
C14_Witness ==
  \E c \in Conns :
    /\ pc[c] = "send_complete" /\ ~ws_open[c] /\ loc[c].sink = "websocket"
    /\ Len(delivered[c]) > 1 /\ Len(delivered[c]) - 1 < Len(loc[c].emitted)
    /\ Status(loc[c].post_id) = COMPLETED
    /\ TextRows(loc[c].post_id) # <<>> /\ MediaRows(loc[c].post_id) # <<>>

\* A run whose callback raised on every call completed with its rows.
C14_WitnessRaisingSink ==
  \E c \in Conns :
    /\ pc[c] = "send_complete" /\ loc[c].sink = "raising" /\ loc[c].emitted # <<>>
    /\ Status(loc[c].post_id) = COMPLETED /\ TextRows(loc[c].post_id) # <<>>

\* A run without a callback completed with its rows.
C14_WitnessNoSink ==
  \E c \in Conns :
    /\ pc[c] = "send_complete" /\ loc[c].sink = "none" /\ delivered[c] = <<Event("connected", None, 0, c)>>
    /\ Status(loc[c].post_id) = COMPLETED /\ TextRows(loc[c].post_id) # <<>>

IsPrefix(a, b) == Len(a) <= Len(b) /\ a = SubSeq(b, 1, Len(a))

\* The progress events of the run of connection c that its websocket received.
Received(c) ==
  LET OfRun(m) == m.type = "progress" /\ m.by = c
  IN SelectSeq(delivered[c], OfRun)

\* The observer of connection c is attached: its websocket is the one
\* registered for the post and its client has not closed it.
Attached(c) ==
  /\ loc[c].sink = "websocket" /\ ws_open[c]
  /\ active_connections[loc[c].post_id] = c

\* C15: the progress events of a run that the websocket of the run has
\* received are, in the same order, a prefix of the events the engine has
\* emitted in that run, and all of them while the observer is attached.
C15_DeliveredIsEmitted ==
  \A c \in Conns :
    pc[c] \notin {"idle", "accept", "closed"}
      => /\ IsPrefix(Received(c), loc[c].emitted)
         /\ Attached(c) => Received(c) = loc[c].emitted

\* An attached observer has received the four or more events of a completed run.
C15_Witness ==
  \E c \in Conns :
    /\ pc[c] = "send_complete" /\ Attached(c)
    /\ Len(loc[c].emitted) >= 4
    /\ Received(c) = loc[c].emitted

\* An observer that closed mid-run has received a proper, non-empty prefix.
C15_WitnessDetached ==
  \E c \in Conns :
    /\ pc[c] = "send_complete" /\ ~Attached(c) /\ loc[c].sink = "websocket"
    /\ Received(c) # <<>>
    /\ Len(Received(c)) < Len(loc[c].emitted)

\* C16: a select that is answered for a post that does not exist or whose
\* status is not completed is answered 404 or 400 and leaves the whole store
\* (selections, selected and unwanted media, flags, the post) as it was.
C16_RejectedSelectChangesNothing ==
  [][(reply' # reply \/ selects' # selects)
       /\ (~db.posts[reply'.post_id].exists \/ db.posts[reply'.post_id].status # COMPLETED)
     => /\ db' = db /\ selects' = selects
        /\ reply'.code = IF db.posts[reply'.post_id].exists THEN 400 ELSE 404]_vars

\* A select on a post that has rows and is not completed was answered 400.
C16_Witness ==
  /\ reply.code = 400 /\ reply.post_id = "p1"
  /\ Status("p1") # COMPLETED /\ TextRows("p1") # <<>>

\* A select on a post that does not exist was answered 404.
C16_WitnessNotFound ==
  reply.code = 404 /\ ~db.posts[reply.post_id].exists

\* The PostSelection rows of post p.
SelectionsOf(d, p) == RowsOf(d.post_selections, p)

\* A step of the select endpoint: it answers a request.
SelectStep == reply' # reply \/ selects' # selects

\* C17: a select on a completed post whose text-variation id is not the id of
\* one of the post's TextVariation rows is not answered 200, and the post has
\* no PostSelection afterwards.
C17_ForeignTextVariationRejected ==
  [][SelectStep
       /\ db.posts[reply'.post_id].exists /\ db.posts[reply'.post_id].status = COMPLETED
       /\ reply'.request.text_variation_id \notin Range(Ids(TextRows(reply'.post_id)))
     => /\ reply'.code # 200
        /\ SelectionsOf(db', reply'.post_id) = <<>>]_vars

\* Selection r references a TextVariation row of its own post.
ReferencesOwnText(r) ==
  \E k \in DOMAIN db.text_variations :
    /\ db.text_variations[k].id = r.text_variation_id
    /\ db.text_variations[k].post_id = r.post_id

\* C18: every PostSelection references a TextVariation that exists and
\* belongs to the same Post.
C18_SelectionsReferenceOwnText ==
  \A k \in DOMAIN db.post_selections : ReferencesOwnText(db.post_selections[k])

\* The same for the selections that were made with the id of a row of the post
\* (all but those of the foreign id): what a later run does to them.
C18_ValidSelectionsKeepTheirText ==
  \A k \in DOMAIN db.post_selections :
    db.post_selections[k].text_variation_id # ForeignId
      => ReferencesOwnText(db.post_selections[k])

\* C19: at most one TextVariation row of a Post has is_selected = true.
C19_AtMostOneTextSelected ==
  \A p \in PostIds :
    Cardinality({k \in DOMAIN TextRows(p) : TextRows(p)[k].is_selected}) <= 1

\* The media ids of the SelectedMedia rows of selection id, in store order.
SelectedMediaOf(d, id) ==
  LET OfSelection(m) == m.selection_id = id
  IN [k \in DOMAIN SelectSeq(d.selected_media, OfSelection) |->
        SelectSeq(d.selected_media, OfSelection)[k].media_content_id]

\* C20: a Post has at most one PostSelection; every SelectedMedia row belongs
\* to a PostSelection that exists; and after a successful select the
\* selection of the post is the one the reply names, with the text variation
\* of the request and exactly the media ids of the request as SelectedMedia.
C20_OneSelectionWithLatestMedia ==
  /\ \A p \in PostIds : Len(SelectionsOf(db, p)) <= 1
  /\ \A k \in DOMAIN db.selected_media :
        \E j \in DOMAIN db.post_selections :
          db.post_selections[j].id = db.selected_media[k].selection_id
  /\ reply.code = 200
       => LET sel == SelectionsOf(db, reply.post_id)
          IN /\ Len(sel) = 1
             /\ sel[1].id = reply.selection_id
             /\ sel[1].text_variation_id = reply.request.text_variation_id
             /\ SelectedMediaOf(db, sel[1].id)
                  = reply.request.image_ids \o reply.request.video_ids

\* A second select was answered 200, choosing an image that the first select
\* had tombstoned as unwanted, and the first selection had selected media.
C20_Witness ==
  /\ selects = 2 /\ reply.code = 200
  /\ Len(reply.request.image_ids) = 1
  /\ \E k \in DOMAIN db.unwanted_media :
        db.unwanted_media[k].media_content_id = reply.request.image_ids[1]
  /\ \E k \in DOMAIN db.media_contents :
        /\ db.media_contents[k].is_selected
        /\ db.media_contents[k].id # reply.request.image_ids[1]

\* The number of UnwantedMedia rows that name media id.
Tombstones(d, id) ==
  Cardinality({k \in DOMAIN d.unwanted_media : d.unwanted_media[k].media_content_id = id})

\* C21: after a successful select every MediaContent row of the post with a
\* storage location is flagged selected or has exactly one tombstone, and a
\* row without a storage location is neither flagged nor tombstoned.
C21_SelectedOrTombstonedOnce ==
  reply.code = 200
    => \A k \in DOMAIN MediaRows(reply.post_id) :
         LET m == MediaRows(reply.post_id)[k]
         IN IF m.file_path # ""
            THEN m.is_selected \/ Tombstones(db, m.id) = 1
            ELSE ~m.is_selected /\ Tombstones(db, m.id) = 0

\* The same for the rows that have a storage location only: what a re-select
\* does to the tombstones.
C21_LocatedRowsTombstonedOnce ==
  reply.code = 200
    => \A k \in DOMAIN MediaRows(reply.post_id) :
         LET m == MediaRows(reply.post_id)[k]
         IN m.file_path # "" => m.is_selected \/ Tombstones(db, m.id) = 1

\* The media rows of post p that a select choosing the ids chosen tombstones:
\* those not chosen that have a storage location.
Unchosen(p, chosen) ==
  {k \in DOMAIN MediaRows(p) :
     MediaRows(p)[k].id \notin chosen /\ MediaRows(p)[k].file_path # ""}

\* C22: the count a successful select returns is the number of UnwantedMedia
\* rows the call inserted, and that is the number of media rows of the post
\* that are not chosen and have a storage location.
C22_UnwantedCountIsInserted ==
  [][reply'.code = 200 /\ selects' = selects + 1
     => LET n == Cardinality(Unchosen(reply'.post_id,
                    Range(reply'.request.image_ids \o reply'.request.video_ids)))
        IN /\ reply'.unwanted_media_count = n
           /\ Len(db'.unwanted_media) = Len(db.unwanted_media) + n
           /\ SubSeq(db'.unwanted_media, 1, Len(db.unwanted_media)) = db.unwanted_media]_vars

\* A select that chose no image of a post with a located image and an image
\* without location returned the count 1.
C22_Witness ==
  /\ reply.code = 200 /\ reply.unwanted_media_count = 1
  /\ reply.request.image_ids = <<>>
  /\ \E k \in DOMAIN MediaRows(reply.post_id) : MediaRows(reply.post_id)[k].file_path = ""
  /\ \E k \in DOMAIN MediaRows(reply.post_id) : MediaRows(reply.post_id)[k].file_path # ""

\* C23: a select whose create_selection fails is answered 500 and leaves the
\* store exactly as it was before the call: the selection that existed, its
\* SelectedMedia rows, the flags and the tombstones.
C23_FailedSelectionLeavesStore ==
  [][SelectStep /\ reply'.code = 500 => db' = db]_vars

\* The events of step that connection c has emitted.
EmittedOf(c, step) ==
  {k \in DOMAIN loc[c].emitted : loc[c].emitted[k].step = step}

\* C24: a run of a Post whose media kind is neither image nor both never
\* enters the media step: it emits no generating_media event, calls no image
\* gateway and leaves the Post without MediaContent rows, whatever image
\* prompts the response holds.
C24_MediaOnlyWhenRequested ==
  \A c \in Conns :
    Serving(c) /\ db.posts[loc[c].post_id].exists
      /\ db.posts[loc[c].post_id].media_content_needed \notin {"image", "both"}
      => /\ MediaRows(loc[c].post_id) = <<>>
         /\ EmittedOf(c, "generating_media") = {}
         /\ pc[c] \notin {"progress_media", "image_call", "image_poll", "image_sleep",
                          "image_download", "upload_call"}

\* A run of a post of kind none or video completed with text rows and no media
\* rows on a response that held image prompts.
C24_Witness ==
  \E c \in Conns :
    /\ pc[c] = "send_complete" /\ loc[c].success = "true"
    /\ db.posts[loc[c].post_id].media_content_needed \in {"none", "video"}
    /\ loc[c].parsed.image_prompts # <<>>
    /\ TextRows(loc[c].post_id) # <<>> /\ MediaRows(loc[c].post_id) = <<>>
    /\ Status(loc[c].post_id) = COMPLETED

\* Connection c is past the write of status completed of its run.
Completed(c) ==
  pc[c] \in {"progress_completed", "send_complete"}
    \/ (pc[c] = "sleeping" /\ loc[c].success = "true")

\* C25: when a run of a Post that asked for images has completed, the Post
\* has one MediaContent row per image prompt of the response, in the order of
\* the prompts: row k carries sequence number k and prompt k.
C25_MediaNumbersAreOneToM ==
  \A c \in Conns :
    Completed(c) /\ db.posts[loc[c].post_id].media_content_needed \in {"image", "both"}
      => LET rows == MediaRows(loc[c].post_id)
             prompts == loc[c].parsed.image_prompts
         IN /\ Len(rows) = Len(prompts)
            /\ \A k \in DOMAIN rows :
                  /\ rows[k].variation_number = k
                  /\ rows[k].generation_prompt = prompts[k]

\* A run completed with MaxPrompts media rows.
C25_Witness ==
  \E c \in Conns :
    /\ pc[c] = "send_complete" /\ loc[c].success = "true"
    /\ Len(loc[c].parsed.image_prompts) = MaxPrompts
    /\ Len(MediaRows(loc[c].post_id)) = MaxPrompts
    /\ MediaRows(loc[c].post_id)[MaxPrompts].variation_number = MaxPrompts

\* The "complete" message the client of connection c received last.
CompleteEvent(c) == delivered[c][Len(delivered[c])]

\* The client of connection c has received the "complete" message of its run
\* and the connection has not closed yet.
GotComplete(c) ==
  /\ pc[c] = "sleeping" /\ loc[c].success = "true"
  /\ delivered[c] # <<>> /\ CompleteEvent(c).type = "complete"

\* C26: once the client has received the complete event of a run, the text
\* list of the event lists the rows get_text_variations returns for the Post
\* (same ids, numbers and texts, ascending by number), and the media list
\* lists the rows get_media_contents returns.
C26_CompleteMatchesReadback ==
  \A c \in Conns :
    GotComplete(c)
      => LET m == CompleteEvent(c)
             tv == get_text_variations(db, loc[c].post_id, FALSE)
             mc == get_media_contents(db, loc[c].post_id, FALSE)
         IN /\ Len(m.text) = Len(tv)
            /\ \A k \in DOMAIN tv :
                  /\ m.text[k].id = tv[k].id
                  /\ m.text[k].variation_number = tv[k].variation_number
                  /\ m.text[k].text_content = tv[k].text_content
            /\ \A k \in 1..(Len(m.text) - 1) :
                  m.text[k].variation_number <= m.text[k + 1].variation_number
            /\ Len(m.media) = Len(mc)
            /\ \A k \in DOMAIN mc :
                  /\ m.media[k].id = mc[k].id
                  /\ m.media[k].variation_number = mc[k].variation_number
                  /\ m.media[k].file_path = mc[k].file_path
                  /\ m.media[k].generation_prompt = mc[k].generation_prompt

\* A complete event with MaxVars text variations and a media row was received.
C26_Witness ==
  \E c \in Conns :
    /\ GotComplete(c)
    /\ Len(CompleteEvent(c).text) = MaxVars
    /\ Len(CompleteEvent(c).media) >= 1

\* Post p is created by this step.
Created(p) == ~db.posts[p].exists /\ db'.posts[p].exists

\* C27: a step that creates a Post from a creation request (one data source
\* at least) leaves the Post with status pending, and get_data_sources returns
\* the sources of the request, as many and in the order of the request.
C27_CreatedPendingWithSources ==
  [][\A p \in PostIds :
       Created(p)
         => \E req \in CreateRequests :
              /\ Len(req.sources) >= 1
              /\ db'.posts[p].status = PENDING
              /\ db'.posts[p].media_content_needed = req.media
              /\ get_data_sources(db', p, FALSE) = req.sources]_vars

\* A Post created from a request with two sources of different kinds, before
\* any connection.
C27_Witness ==
  \E p \in PostIds :
    /\ db.posts[p].exists /\ db.posts[p].status = PENDING
    /\ get_data_sources(db, p, FALSE) = <<Link("u"), Text("a")>>
    /\ \A c \in Conns : pc[c] = "idle"

\* The run of connection c is in its media phase.
InMedia(c) ==
  pc[c] \in {"progress_media", "image_call", "image_poll", "image_sleep",
             "image_download", "upload_call"}

\* The run of connection c failed while it generated media.
FailedInMedia(c) ==
  /\ pc[c] \in {"send_error", "sleeping"} /\ loc[c].success = "false"
  /\ loc[c].exc \in {ErrImageGateway, ErrUpload}

\* C28: the writes of a run are committed one by one. A reader of the store
\* sees, while the run awaits the progress event of variation k, the text rows
\* 1..k of the run; during the media phase all text rows and the media rows
\* of the prompts done; and after a run failed during media generation the
\* same rows, still there, with status failed.
C28_WritesCommitOneByOne ==
  \A c \in Conns :
    LET l == loc[c]
        p == l.post_id
        tv == get_text_variations(db, p, FALSE)
        mc == get_media_contents(db, p, FALSE)
    IN /\ pc[c] = "progress_variation"
            => /\ Range(Ids(tv)) = Range(RowsWrittenBy(c, "t", l.i))
               /\ mc = <<>>
       /\ InMedia(c)
            => /\ Range(Ids(tv)) = Range(RowsWrittenBy(c, "t", Len(l.parsed.variations)))
               /\ Range(Ids(mc)) = Range(RowsWrittenBy(c, "m", l.mediaCount - 1))
       /\ FailedInMedia(c)
            => /\ Status(p) = FAILED
               /\ Range(Ids(tv)) = Range(RowsWrittenBy(c, "t", Len(l.parsed.variations)))
               /\ Range(Ids(mc)) = Range(RowsWrittenBy(c, "m", l.mediaCount - 1))

\* A run failed at its second image: the text rows and the first media row
\* are in the store and the status is failed.
C28_Witness ==
  \E c \in Conns :
    /\ FailedInMedia(c) /\ pc[c] = "send_error"
    /\ Status(loc[c].post_id) = FAILED
    /\ TextRows(loc[c].post_id) # <<>>
    /\ Len(MediaRows(loc[c].post_id)) = 1

\* A reader sees the first text row of a run that has a second one to write.
C28_WitnessDuringRun ==
  \E c \in Conns :
    /\ pc[c] = "progress_variation" /\ loc[c].i = 1
    /\ Len(loc[c].parsed.variations) = MaxVars
    /\ Len(TextRows(loc[c].post_id)) = 1

\* The place of a progress step in the order of the workflow.
StepRank(step) ==
  CASE step = "extracting_context" -> 1
    [] step = "generating_text" -> 2
    [] step = "generating_media" -> 3
    [] step = "completed" -> 4
    [] OTHER -> 0

\* C29: the progress events a run has emitted follow the order of the
\* workflow: no extracting_context event after a generating_text event, no
\* generating_text event after the generating_media event, and nothing after
\* the completed event.
C29_EventsFollowStepOrder ==
  \A c \in Conns :
    \A i, j \in DOMAIN loc[c].emitted :
      i < j => /\ StepRank(loc[c].emitted[i].step) <= StepRank(loc[c].emitted[j].step)
               /\ loc[c].emitted[i].step # "completed"

\* The completed event is the last event of every run that emitted it.
C29_CompletedIsLast ==
  \A c \in Conns :
    \A i, j \in DOMAIN loc[c].emitted :
      i < j => loc[c].emitted[i].step # "completed"

\* The run of connection c is in progress: its Reset is done, its final status
\* write (completed, or failed in the except branch) is not.
InProgress(c) ==
  pc[c] \in {"send_connected", "progress_start", "progress_source", "text_call",
             "progress_variation", "progress_media", "image_call", "image_poll",
             "image_sleep", "image_download", "upload_call"}

\* A run of post p is in progress.
RunningOn(p) == \E c \in Conns : InProgress(c) /\ loc[c].post_id = p

\* C30: while a run of a Post is in progress, from its Reset to its final
\* status write, the persisted status of the Post is not completed.
C30_NotCompletedDuringRun ==
  \A c \in Conns :
    InProgress(c) /\ db.posts[loc[c].post_id].exists
      => Status(loc[c].post_id) # COMPLETED

\* A select request answered while a run of its Post is in progress is not
\* accepted.
C30_SelectDuringRunRejected ==
  [][SelectStep /\ RunningOn(reply'.post_id) => reply'.code \notin {200, 500}]_vars

\* The per-image progress events the run of connection c has emitted: the
\* events of the media step that name an image (the announcement of the step
\* names none).
PerImageEvents(c) ==
  {k \in DOMAIN loc[c].emitted :
     loc[c].emitted[k].step = "generating_media" /\ loc[c].emitted[k].arg >= 1}

\* C31: during media generation a run emits one progress event per image: at
\* every generation call of the image loop, and once the loop is over, the run
\* has emitted as many per-image events as it has persisted MediaContent rows.
C31_OneEventPerImage ==
  \A c \in Conns :
    (pc[c] = "image_call" \/ Completed(c))
      /\ db.posts[loc[c].post_id].media_content_needed \in {"image", "both"}
      => Cardinality(PerImageEvents(c)) = Len(MediaRows(loc[c].post_id))

\* The variation numbers named by the progress events of persisted variations
\* that the run of connection c has emitted, in the order of emission (the
\* announcement of the text step names no variation).
VariationEvents(c) ==
  LET Names(m) == m.step = "generating_text" /\ m.arg >= 1
      ev == SelectSeq(loc[c].emitted, Names)
  IN [k \in DOMAIN ev |-> ev[k].arg]

\* The variation numbers of the TextVariation rows the run of connection c has
\* persisted, in the order of insertion.
PersistedNumbers(c) ==
  LET Own(r) == r.id[1] = c
      rows == SelectSeq(TextRows(loc[c].post_id), Own)
  IN [k \in DOMAIN rows |-> rows[k].variation_number]

\* C32: the variations are persisted one by one and each persisted row is
\* followed by one progress event naming it before the next row is written: at
\* the await of that event the rows are one ahead of the events, the last row
\* being the variation just read; anywhere else the events name the persisted
\* rows, one each, in order. A variation whose insert failed has no row and no
\* event. A row whose id could not be read back after its commit stays in the
\* store without an event: the runs of SpecTextFaults reach it.
C32_OneEventPerPersistedVariation ==
  \A c \in Conns :
    Serving(c)
      => LET ev == VariationEvents(c)
             rows == PersistedNumbers(c)
         IN IF pc[c] = "progress_variation"
            THEN /\ Len(rows) = Len(ev) + 1
                 /\ SubSeq(rows, 1, Len(ev)) = ev
                 /\ rows[Len(rows)] = loc[c].parsed.variations[loc[c].i].variation_number
            ELSE rows = ev

\* C33: a ReadTimeout on a status poll neither ends the run nor the image:
\* the poll leaves the store and the locals of the run as they were and goes
\* to the sleep of the fixed interval, and the sleep is followed by the next
\* poll, in the state the run was in before the poll that timed out.
C33_TimeoutRetriesPoll ==
  [][\A c \in Conns :
       /\ pc[c] = "image_poll" /\ loc'[c].timed_out
            => /\ pc'[c] = "image_sleep"
               /\ db' = db
               /\ loc'[c] = [loc[c] EXCEPT !.timed_out = TRUE]
       /\ pc[c] = "image_sleep" /\ pc'[c] # "image_sleep"
            => /\ pc'[c] = "image_poll"
               /\ db' = db
               /\ loc'[c] = [loc[c] EXCEPT !.timed_out = FALSE]]_vars

\* A run sleeps after a poll of its second image that timed out.
C33_Witness ==
  \E c \in Conns :
    /\ pc[c] = "image_sleep" /\ loc[c].timed_out
    /\ loc[c].j = 2 /\ Len(MediaRows(loc[c].post_id)) = 1

\* What the k-th data source of post p contributes to the context, given the
\* results of the extractions of connection c: its content for a text source,
\* the extracted text for a link that yielded text, nothing otherwise.
Contribution(c, p, k) ==
  LET src == db.posts[p].sources[k]
  IN IF src.type = "text" THEN <<"verbatim", src.content>>
     ELSE IF loc[c].results[k] # "" THEN <<"extracted", src.content>>
     ELSE <<>>

\* The sources of post p that contribute to the context of connection c, in
\* the order of insertion.
Contributing(c, p) ==
  LET NonEmpty(k) == Contribution(c, p, k) # <<>>
  IN SelectSeq([k \in DOMAIN db.posts[p].sources |-> k], NonEmpty)

\* C34: the context passed to text generation is made of the non-empty
\* extraction results of the data sources of the Post, in the order of
\* insertion of the sources, with the separator between two of them and
\* nowhere else: n results give 2n - 1 elements (none for n = 0), the results
\* at the odd places and the separator at the even ones; a text source
\* contributes its content.
C34_ContextIsJoinOfNonEmpty ==
  \A c \in Conns :
    pc[c] = "text_call"
      => LET p == loc[c].post_id
             ks == Contributing(c, p)
             n == Len(ks)
             ctx == loc[c].prompt_context
         IN /\ Len(loc[c].results) = Len(db.posts[p].sources)
            /\ Len(ctx) = IF n = 0 THEN 0 ELSE 2 * n - 1
            /\ \A k \in DOMAIN ctx :
                  ctx[k] = IF k % 2 = 1 THEN Contribution(c, p, ks[(k + 1) \div 2]) ELSE Sep

\* The text generation of a Post with a text source followed by a link whose
\* extraction yielded nothing: the context is the text alone.
C34_Witness ==
  \E c \in Conns :
    /\ pc[c] = "text_call"
    /\ db.posts[loc[c].post_id].sources = <<Text("a"), Link("u")>>
    /\ loc[c].results = <<"a", "">>
    /\ loc[c].prompt_context = <<<<"verbatim", "a">>>>

\* The text generation of a Post with two sources that both contribute.
C34_WitnessTwoSegments ==
  \E c \in Conns :
    /\ pc[c] = "text_call"
    /\ loc[c].prompt_context = <<<<"extracted", "u">>, Sep, <<"verbatim", "a">>>>

\* C35: update_post_status is idempotent on a repeated identical call: for
\* every Post and all arguments, a second call with the arguments of the first
\* leaves every field of the Post as the first call left it.
C35_UpdateStatusIdempotent ==
  \A p \in PostIds, status \in StatusValues, current_step \in StepArgs,
     error_message \in ErrorArgs :
    LET once == update_post_status(db, p, status, current_step, error_message, FALSE)
        twice == update_post_status(once, p, status, current_step, error_message, FALSE)
    IN twice.posts[p] = once.posts[p]

\* The repeated call leaves status, current_step, error_message and started_at
\* as the first call left them.
C35_IdempotentButCompletedAt ==
  \A p \in PostIds, status \in StatusValues, current_step \in StepArgs,
     error_message \in ErrorArgs :
    LET once == update_post_status(db, p, status, current_step, error_message, FALSE)
        twice == update_post_status(once, p, status, current_step, error_message, FALSE)
    IN twice.posts[p] = [once.posts[p] EXCEPT !.completed_at = twice.posts[p].completed_at]

\* The media ids the current PostSelection of post p references.
CurrentlySelected(p) ==
  UNION {Range(SelectedMediaOf(db, SelectionsOf(db, p)[k].id)) :
           k \in DOMAIN SelectionsOf(db, p)}

\* C36: after a successful select, a MediaContent row of the Post is flagged
\* is_selected exactly when the current PostSelection of the Post references
\* it; so a row the latest select left out (and tombstoned) is not flagged.
C36_FlagMeansCurrentlySelected ==
  reply.code = 200
    => \A k \in DOMAIN MediaRows(reply.post_id) :
         MediaRows(reply.post_id)[k].is_selected
           <=> MediaRows(reply.post_id)[k].id \in CurrentlySelected(reply.post_id)

\* After the first successful select the flags are those of the selection.
C36_FirstSelectFlagsItsMedia ==
  reply.code = 200 /\ selects = 1
    => \A k \in DOMAIN MediaRows(reply.post_id) :
         MediaRows(reply.post_id)[k].is_selected
           <=> MediaRows(reply.post_id)[k].id \in CurrentlySelected(reply.post_id)

\* C37: a select on post P leaves the rows of the other posts as they are:
\* whatever ids the request carries, the TextVariation and MediaContent rows
\* that belong to another post, their is_selected flags included, and the
\* other posts themselves are the same after the step.
C37_SelectLeavesOtherPosts ==
  [][SelectStep
     => /\ RowsNotOf(db'.text_variations, reply'.post_id)
             = RowsNotOf(db.text_variations, reply'.post_id)
        /\ RowsNotOf(db'.media_contents, reply'.post_id)
             = RowsNotOf(db.media_contents, reply'.post_id)
        /\ \A p \in PostIds \ {reply'.post_id} : db'.posts[p] = db.posts[p]]_vars

\* A select whose request names rows of its own post only leaves the rows of
\* the other posts as they are.
C37_OwnIdsLeaveOtherPosts ==
  [][SelectStep
       /\ reply'.request.text_variation_id \in Range(Ids(TextRows(reply'.post_id)))
       /\ Range(reply'.request.image_ids) \subseteq Range(Ids(MediaRows(reply'.post_id)))
     => /\ RowsNotOf(db'.text_variations, reply'.post_id)
             = RowsNotOf(db.text_variations, reply'.post_id)
        /\ RowsNotOf(db'.media_contents, reply'.post_id)
             = RowsNotOf(db.media_contents, reply'.post_id)]_vars

\* C38: the progress events a websocket has received are events of the run
\* its own connection started, also when connections for the same post
\* overlap.
C38_EventsGoToOwnConnection ==
  \A c \in Conns :
    \A k \in DOMAIN delivered[c] :
      delivered[c][k].type = "progress" => delivered[c][k].by = c

\* Connection c ends in this step.
Ends(c) == pc[c] # "closed" /\ pc'[c] = "closed"

\* C39: a connection that ends removes its own registration only: a newer
\* connection registered for the same post whose run is in progress is still
\* registered after the step.
C39_EndRemovesOwnRegistration ==
  [][\A c, d \in Conns :
       Ends(c) /\ d # c /\ InRun(d) /\ active_connections[loc[d].post_id] = d
         => active_connections'[loc[d].post_id] = d]_vars

\* A connection that ends alone on its post leaves no registration of the post.
C39_EndOfOnlyConnectionUnregisters ==
  [][\A c \in Conns :
       Ends(c) /\ active_connections[loc[c].post_id] = c
         => active_connections'[loc[c].post_id] = 0]_vars

\* C40: a Post whose status is completed carries no error message, also after
\* a sequence of runs in which an earlier one failed.
C40_CompletedHasNoError ==
  \A p \in PostIds :
    db.posts[p].exists /\ Status(p) = COMPLETED => db.posts[p].error_message = None

\* A Post completed by its first run carries no error message.
C40_FirstRunCompletedHasNoError ==
  \A c \in Conns :
    c = 1 /\ pc[c] \in {"progress_completed", "send_complete", "sleeping"}
      /\ db.posts[loc[c].post_id].exists /\ Status(loc[c].post_id) = COMPLETED
      => db.posts[loc[c].post_id].error_message = None

====
